---- MODULE Spec2Model ----
(***************************************************************************)
(* A model of MDT's chunked, resumable voxel processing (mdt/utils.py:     *)
(* ModelProcessingWorker, FittingProcessingWorker, model_output_exists,    *)
(* create_roi) driven by SingleModelFit.run (mdt/model_fitting.py), and of *)
(* the cascade recursion ModelFit._run.                                    *)
(*                                                                         *)
(* A volume is the row-major flattening of the mask's shape: positions     *)
(* 1..NPos.  A file name is a sequence of tokens, so that glob's prefix    *)
(* match (parameter_name + '*') is computed on names and not assumed.      *)
(* A kill of the process may come between any two statements of the code.  *)
(***************************************************************************)
EXTENDS Integers, Sequences, FiniteSets, TLC

\* ------------------------------------------------------------------ bounds
NPos == 3
MaxChunks == 2
MaxRuns == 2
MaxNodes == 5
MaxW == 2
MaxSamples == 2
MaxSubjects == 2
MaxModels == 2
MaxWrites == 3
MaxKeyLen == 3
MaxKeys == 2
MaxTrail == 2
MaxDepth == 1

Pos == 1..NPos

\* ------------------------------------------------------------- the model
\* The names get_optimization_output_param_names() declares (one a prefix of
\* the other, as Tensor.d and Tensor.dperp0 are), and the keys of extra_output
\* that process() merges into the results: this optimizer returns none.
DeclaredNames == { <<"d">>, <<"d", "perp">> }
ExtraNames == {}
ResultNames == DeclaredNames \cup ExtraNames

NpyExt == <<".npy">>
NiiExt == <<".nii.gz">>
MaskName == <<"__mask">>

NameIdx(n) == IF n = <<"d">> THEN 1 ELSE 2

\* The optimizer's estimate of parameter n at volume position p: never the
\* zero of a freshly created array, different for every (n, p).
Optimize(n, p) == NameIdx(n) * 10 + p

\* ---------------------------------------------------------- VoxelAddressing
RECURSIVE SortedSeq(_)
SortedSeq(S) ==
    IF S = {} THEN <<>>
    ELSE LET m == CHOOSE x \in S : \A y \in S : x <= y
         IN <<m>> \o SortedSeq(S \ {m})

\* numpy's boolean indexing visits the true positions in row-major order
ROIOrder(m) == SortedSeq(m)

\* no selection: every position of the volume
CreateRoiDense(vol, m) == vol

\* create_roi: v[brain_mask], one row per active voxel
CreateRoi(vol, m) == [i \in 1..Cardinality(m) |-> vol[ROIOrder(m)[i]]]

Rank(p, m) == Cardinality({q \in m : q <= p})

\* the whole array assigned: zero wherever the mask is not set
ScatterWhole(arr, m, vec) == [p \in Pos |-> IF p \in m THEN vec[Rank(p, m)] ELSE 0]

\* tmp_matrix[mask] = result_array
Scatter(arr, m, vec) == [p \in Pos |-> IF p \in m THEN vec[Rank(p, m)] ELSE arr[p]]

ZeroVolume == [p \in Pos |-> 0]

\* the optimizer's output for the voxels selected by the chunk, in ROI order
MinimizeResults(c) ==
    [n \in ResultNames |-> [i \in 1..Cardinality(c) |-> Optimize(n, ROIOrder(c)[i])]]

\* ------------------------------------------------------------- file names
IsPrefix(a, b) == Len(a) <= Len(b) /\ SubSeq(b, 1, Len(a)) = a

\* glob.glob(os.path.join(output_path, parameter_name + '*')) is non-empty
GlobHit(n, fileNames) == \E f \in fileNames : IsPrefix(n, f)

ModelOutputExists(dirExists, fileNames) ==
    /\ dirExists
    /\ \A n \in DeclaredNames : GlobHit(n, fileNames)

\* ------------------------------------------------------------------ state
VARIABLES
    mask,        \* the active positions of input_data.mask
    chunks,      \* the ordered partition of the mask into chunk masks
    tmpDir,      \* the chunk-store directory exists
    tmpFiles,    \* <name>.npy in the chunk store: name -> dense array
    maskFile,    \* __mask.npy: [exists, bits]
    outDir,      \* the model's output directory exists
    outFiles,    \* <name>.nii.gz in the output directory: name -> volume
    pc,          \* the statement the run is at; "idle" when no run is live
    recalculate, \* SingleModelFit.recalculate of the live run
    ci,          \* index of the chunk the scheduler is at
    results,     \* what process() got from the optimizer for the chunk
    wpending,    \* names a loop (_write_volumes, _combine_volumes) has left
    wname,       \* the name the loop is at
    roiResult,   \* what the last finished run returned
    runs,        \* number of runs started
    processed,   \* chunk indices process() was invoked on, this run
    visits,      \* the scheduler's decisions, this run
    fresh,       \* the chunk store was empty when this run's loop began
    last,        \* how the latest run ended: [outcome, at]
    prev,        \* the run before the latest: [outcome, at, recalc, fresh]
    startTmp,    \* the chunk store as the live run found it
    startOut     \* the output directory as the live run found it

schedVars == <<mask, chunks, tmpDir, tmpFiles, maskFile, outDir, outFiles, pc,
               recalculate, ci, results, wpending, wname, roiResult, runs,
               processed, visits, fresh, last, prev, startTmp, startOut>>

NoFiles == [n \in {} |-> ZeroVolume]
NoMask == [exists |-> FALSE, bits |-> {}]
NoResults == [n \in {} |-> <<>>]

TmpFileNames ==
    {n \o NpyExt : n \in DOMAIN tmpFiles}
        \cup (IF maskFile.exists THEN {MaskName \o NpyExt} ELSE {})

OutFileNames == {n \o NiiExt : n \in DOMAIN outFiles}

\* a processed-mask file that is there, whatever it flags
FittingOutputExistsAnyMask(c) ==
    /\ ModelOutputExists(tmpDir, TmpFileNames)
    /\ maskFile.exists

\* FittingProcessingWorker.output_exists(model, mask, tmp_storage_dir)
FittingOutputExists(c) ==
    /\ ModelOutputExists(tmpDir, TmpFileNames)
    /\ maskFile.exists
    /\ c \subseteq maskFile.bits

\* ------------------------------------------------------- the cascade's state
\* A model is a composite (terminal) model or a cascade of models.  A model
\* is known by its path, the child indices from the outermost model, which
\* stands for its name.
VARIABLES
    tree,          \* ModelFit._model
    optRecalculate,   \* ModelFit._recalculate
    optOnlyLast,   \* ModelFit._only_recalculate_last
    stack,         \* the live calls of ModelFit._run, innermost last
    cursor,        \* every cascade's iteration position
    namesList,     \* ModelFit._model_names_list
    outExists,     \* the composite models whose output exists
    calls,         \* the calls of _run_composite_model, oldest first
    subcalls,      \* the recursive calls of _run made by cascades
    fitRuns,       \* number of ModelFit.run() calls that returned
    fitResult      \* what the last run() returned

chainVars == <<tree, optRecalculate, optOnlyLast, stack, cursor, namesList,
               outExists, calls, subcalls, fitRuns, fitResult>>

\* ------------------------------------------- create_roi and restore_volumes
VARIABLES
    roiIn,         \* the arguments: [x, m, wvd], or <<>> when no call is made
    roiOut         \* what restore_volumes(create_roi(x, m), m, wvd) gave

roiVars == <<roiIn, roiOut>>

\* ------------------------------ SamplingProcessingWorker._write_sample_results
VARIABLES
    traceIn,       \* [m, cs, s]: full mask, its chunks, samples kept per voxel
    traceFiles,    \* <name>.samples.npy: name -> array of rows
    traceAt,       \* index of the chunk being written; 0 when no sampling runs
    tracePending,  \* the items of results.items() left for this chunk
    movedTraces    \* <name>.samples.npy in the output directory, after combine

traceVars == <<traceIn, traceFiles, traceAt, tracePending, movedTraces>>

\* --------------------------------------------- insufficient input data
VARIABLES
    errors,        \* the exceptions raised to the caller, oldest first
    badRuns        \* the runs that were started on insufficient input data

errVars == <<errors, badRuns>>

\* ------------------------------------------------------- batch fitting
VARIABLES
    batchIn,       \* [suff, exists, recalc]: per subject and model whether the
                   \* protocol suffices; the models with output; recalculate
    batchSubject,  \* the subject FitFunc is called with; 0 when no batch runs
    batchModel,    \* position in models_to_fit; 0 before the loop
    batchLog,      \* what was logged, oldest first: [event, subject, model]
    batchRaised    \* an exception left FitFunc

batchVars == <<batchIn, batchSubject, batchModel, batchLog, batchRaised>>

\* ------------------------------------------------------------ sample_model
VARIABLES
    sampleIn,      \* the call: [byName, cascade, postProcessing, clDevice,
                   \* recalculate], or <<>> when sample_model is not called
    samplePc,      \* the statement sample_model is at
    baseDir,       \* <output_folder>/<model name>/samples exists
    sampleLog      \* what was done to base_dir and the sampler, oldest first

sampleVars == <<sampleIn, samplePc, baseDir, sampleLog>>

\* ------------------------------------- concurrent calls of _write_volumes
VARIABLES
    writers,       \* per writer: the statement of _write_volumes it is at and
                   \* its locals [pc, ci, pending, name, mode, seen]; before is
                   \* the store as a sequential call found it
    schedule,      \* "sequential": one call at a time; "interleaved"
    nWrites,       \* number of calls of _write_volumes made
    flaggedEver    \* the positions some finished call has flagged

writerVars == <<writers, schedule, nWrites, flaggedEver>>

\* ------------------------------------------------ the helpers of utils.py
VARIABLES
    utilIn,        \* the arguments of the helper called; <<>> when none is
    utilOut        \* what it returned; <<>> before it has

utilVars == <<utilIn, utilOut>>

moreVars == <<sampleVars, writerVars, utilVars>>

auxVars == <<roiVars, traceVars, errVars, batchVars, moreVars>>


\* every way to split the mask m into at most MaxChunks ordered chunks
Partitions(m) ==
    UNION { { [i \in 1..k |-> {p \in m : f[p] = i}] :
                f \in {g \in [m -> 1..k] : \A i \in 1..k : \E p \in m : g[p] = i} } :
            k \in 1..MaxChunks }

NChunks == Len(chunks)

SchedInitFor(m, cs) ==
    /\ mask = m
    /\ chunks = cs
    /\ tmpDir = FALSE
    /\ tmpFiles = NoFiles
    /\ maskFile = NoMask
    /\ outDir = FALSE
    /\ outFiles = NoFiles
    /\ pc = "idle"
    /\ recalculate = FALSE
    /\ ci = 0
    /\ results = NoResults
    /\ wpending = {}
    /\ wname = <<>>
    /\ roiResult = NoResults
    /\ runs = 0
    /\ processed = <<>>
    /\ visits = <<>>
    /\ fresh = FALSE
    /\ last = [outcome |-> "none", at |-> "idle"]
    /\ prev = [outcome |-> "none", at |-> "idle", recalc |-> FALSE, fresh |-> FALSE]
    /\ startTmp = [dir |-> FALSE, files |-> NoFiles, mask |-> NoMask]
    /\ startOut = [dir |-> FALSE, files |-> NoFiles]

SchedInit ==
    \E m \in (SUBSET Pos) \ {{}} : \E cs \in Partitions(m) : SchedInitFor(m, cs)

\* the rows taken at the voxels the processed-mask flags
RoiOfMapsFlagged(files) == [n \in DOMAIN files |-> CreateRoi(files[n], maskFile.bits)]

\* create_roi(maps, mask) for a dict of volumes
RoiOfMaps(files) == [n \in DOMAIN files |-> CreateRoi(files[n], mask)]

\* the input data taken as sufficient whatever the model says
InputInsufficientNever(suff) == FALSE

\* the constructors' test: if not model.is_input_data_sufficient(input_data)
InputInsufficient(suff) == ~suff

\* SingleModelFit.run() is entered with recalculate=r
BeginRun(r) ==
    /\ pc = "idle"
    /\ runs < MaxRuns
    /\ pc' = "fit_check"
    /\ recalculate' = r
    /\ runs' = runs + 1
    /\ processed' = <<>>
    /\ visits' = <<>>
    /\ fresh' = FALSE
    /\ ci' = 0
    /\ results' = NoResults
    /\ wpending' = {}
    /\ wname' = <<>>
    /\ prev' = [outcome |-> last.outcome, at |-> last.at,
                recalc |-> recalculate, fresh |-> fresh]
    /\ last' = [outcome |-> "live", at |-> "idle"]
    /\ startTmp' = [dir |-> tmpDir, files |-> tmpFiles, mask |-> maskFile]
    /\ startOut' = [dir |-> outDir, files |-> outFiles]
    /\ UNCHANGED <<chainVars, mask, chunks, tmpDir, tmpFiles, maskFile, outDir, outFiles, roiResult>>

\* SingleModelFit(..., recalculate=r) is constructed on sufficient input data
\* and its run() is called
StartRun(r) ==
    /\ ~InputInsufficient(TRUE)
    /\ Len(errors) + runs < MaxRuns
    /\ BeginRun(r)
    /\ UNCHANGED auxVars

\* no early return
FitCheckGuardNever(rec, exists) == FALSE

\* SingleModelFit.run: the early return when the output exists
FitCheckGuard(rec, exists) == ~rec /\ exists

FitCheck ==
    /\ pc = "fit_check"
    /\ IF FitCheckGuard(recalculate, ModelOutputExists(outDir, OutFileNames))
       THEN /\ roiResult' = RoiOfMaps(outFiles)
            /\ pc' = "idle"
            /\ last' = [outcome |-> "cached", at |-> "setup"]
       ELSE /\ pc' = IF recalculate THEN "fit_remove" ELSE "fit_mkdir"
            /\ UNCHANGED <<roiResult, last>>
    /\ UNCHANGED <<auxVars, chainVars, mask, chunks, tmpDir, tmpFiles, maskFile, outDir, outFiles,
                   recalculate, ci, results, wpending, wname, runs, processed,
                   visits, fresh, prev, startTmp, startOut>>

\* SingleModelFit.run: if self.recalculate: remove the *.nii* of the output path
FitRemove ==
    /\ pc = "fit_remove"
    /\ outFiles' = IF outDir THEN NoFiles ELSE outFiles
    /\ pc' = "fit_mkdir"
    /\ UNCHANGED <<auxVars, chainVars, mask, chunks, tmpDir, tmpFiles, maskFile, outDir,
                   recalculate, ci, results, wpending, wname, roiResult, runs,
                   processed, visits, fresh, last, prev, startTmp, startOut>>

\* SingleModelFit.run: if not os.path.exists(output_path): os.makedirs
FitMkdir ==
    /\ pc = "fit_mkdir"
    /\ outDir' = TRUE
    /\ pc' = "prepare"
    /\ UNCHANGED <<auxVars, chainVars, mask, chunks, tmpDir, tmpFiles, maskFile, outFiles,
                   recalculate, ci, results, wpending, wname, roiResult, runs,
                   processed, visits, fresh, last, prev, startTmp, startOut>>

\* the storage directory kept when recalculate is set
PrepareTmpStorageDirKeep(rec, dir, files, mf) == <<TRUE, files, mf>>

\* _prepare_tmp_storage_dir(tmp_storage_dir, recalculate): what is left of the
\* chunk store, as <<dir, files, mask file>>
PrepareTmpStorageDir(rec, dir, files, mf) ==
    IF rec /\ dir THEN <<TRUE, NoFiles, NoMask>> ELSE <<TRUE, files, mf>>

Prepare ==
    /\ pc = "prepare"
    /\ LET st == PrepareTmpStorageDir(recalculate, tmpDir, tmpFiles, maskFile)
       IN /\ tmpDir' = st[1]
          /\ tmpFiles' = st[2]
          /\ maskFile' = st[3]
          /\ fresh' = (st[2] = NoFiles /\ ~st[3].exists)
    /\ ci' = 1
    /\ pc' = "visit"
    /\ UNCHANGED <<auxVars, chainVars, mask, chunks, outDir, outFiles, recalculate, results, wpending,
                   wname, roiResult, runs, processed, visits, last, prev,
                   startTmp, startOut>>

\* every chunk skipped
MustProcessNever(rec, exists) == FALSE

\* The scheduler's loop, one chunk per step: skip the chunk when its output
\* exists and recomputation is not forced, else process it.
MustProcess(rec, exists) == rec \/ ~exists

Visit ==
    /\ pc = "visit"
    /\ ci <= NChunks
    /\ LET c == chunks[ci]
           go == MustProcess(recalculate, FittingOutputExists(c))
       IN /\ visits' = Append(visits,
                 [chunk |-> ci, proc |-> go,
                  flagged |-> (maskFile.exists /\ c \subseteq maskFile.bits),
                  stored |-> DOMAIN tmpFiles])
          /\ IF go
             THEN /\ pc' = "process"
                  /\ ci' = ci
             ELSE /\ pc' = "visit"
                  /\ ci' = ci + 1
    /\ UNCHANGED <<auxVars, chainVars, mask, chunks, tmpDir, tmpFiles, maskFile, outDir, outFiles,
                   recalculate, results, wpending, wname, roiResult, runs,
                   processed, fresh, last, prev, startTmp, startOut>>

\* FittingProcessingWorker.process: optimizer.minimize, results.update(extra)
Process ==
    /\ pc = "process"
    /\ results' = MinimizeResults(chunks[ci])
    /\ processed' = Append(processed, ci)
    /\ pc' = "w_mkdir"
    /\ UNCHANGED <<auxVars, chainVars, mask, chunks, tmpDir, tmpFiles, maskFile, outDir, outFiles,
                   recalculate, ci, wpending, wname, roiResult, runs,
                   visits, fresh, last, prev, startTmp, startOut>>

\* _write_volumes: if not os.path.exists(tmp_dir): os.makedirs(tmp_dir)
WriteMkdir ==
    /\ pc = "w_mkdir"
    /\ tmpDir' = TRUE
    /\ wpending' = DOMAIN results
    /\ pc' = "w_loop"
    /\ UNCHANGED <<auxVars, chainVars, mask, chunks, tmpFiles, maskFile, outDir, outFiles,
                   recalculate, ci, results, wname, roiResult, runs, processed,
                   visits, fresh, last, prev, startTmp, startOut>>

\* mode 'w+' whether or not the file is there
OpenMemmapTruncate(files, n) == (n :> ZeroVolume) @@ files

\* open_memmap(storage_path, mode): 'w+' creates a zero-filled array, 'r+'
\* opens the one that is there
OpenMemmap(files, n) == IF n \in DOMAIN files THEN files ELSE files @@ (n :> ZeroVolume)

\* _write_volumes: the next item of results.items(), in any order
WriteOpen(n) ==
    /\ pc = "w_loop"
    /\ n \in wpending
    /\ tmpFiles' = OpenMemmap(tmpFiles, n)
    /\ wname' = n
    /\ pc' = "w_scatter"
    /\ UNCHANGED <<auxVars, chainVars, mask, chunks, tmpDir, maskFile, outDir, outFiles,
                   recalculate, ci, results, wpending, roiResult, runs, processed,
                   visits, fresh, last, prev, startTmp, startOut>>

\* _write_volumes: tmp_matrix[mask] = result_array
WriteScatter ==
    /\ pc = "w_scatter"
    /\ tmpFiles' = [tmpFiles EXCEPT ![wname] = Scatter(@, chunks[ci], results[wname])]
    /\ wpending' = wpending \ {wname}
    /\ wname' = <<>>
    /\ pc' = "w_loop"
    /\ UNCHANGED <<auxVars, chainVars, mask, chunks, tmpDir, maskFile, outDir, outFiles,
                   recalculate, ci, results, roiResult, runs, processed,
                   visits, fresh, last, prev, startTmp, startOut>>

\* the processed-mask block entered while items are left
LoopDoneEarly(pending) == TRUE

\* _write_volumes: the processed-mask block comes after the loop over
\* results.items(), that is, when no item is left
LoopDone(pending) == pending = {}

\* _write_volumes: open_memmap(mask_path, ...) once the loop is through
WriteMaskOpen ==
    /\ pc = "w_loop"
    /\ LoopDone(wpending)
    /\ maskFile' = [maskFile EXCEPT !.exists = TRUE]
    /\ pc' = "w_mask"
    /\ UNCHANGED <<auxVars, chainVars, mask, chunks, tmpDir, tmpFiles, outDir, outFiles,
                   recalculate, ci, results, wpending, wname, roiResult, runs,
                   processed, visits, fresh, last, prev, startTmp, startOut>>

\* the chunk's mask stored in place of the accumulated one
MaskOrOverwrite(bits, c) == c

\* _write_volumes: tmp_mask[:] = np.logical_or(tmp_mask, mask)
MaskOr(bits, c) == bits \cup c

\* ... and process() returns to the scheduler, which moves to the next chunk
WriteMaskOr ==
    /\ pc = "w_mask"
    /\ maskFile' = [maskFile EXCEPT !.bits = MaskOr(@, chunks[ci])]
    /\ results' = NoResults
    /\ ci' = ci + 1
    /\ pc' = "visit"
    /\ UNCHANGED <<auxVars, chainVars, mask, chunks, tmpDir, tmpFiles, outDir, outFiles,
                   recalculate, wpending, wname, roiResult, runs, processed,
                   visits, fresh, last, prev, startTmp, startOut>>

\* _combine_volumes: the *.npy of the chunk store, '__mask' filtered out
MapNames == DOMAIN tmpFiles

\* combine entered from the loop at any chunk
CombineStartEarly ==
    /\ pc = "visit"
    /\ wpending' = MapNames
    /\ pc' = "combine"
    /\ UNCHANGED <<auxVars, chainVars, mask, chunks, tmpDir, tmpFiles, maskFile, outDir, outFiles,
                   recalculate, ci, results, wname, roiResult, runs, processed,
                   visits, fresh, last, prev, startTmp, startOut>>

\* the loop over the chunks is through: worker.combine is called, which starts
\* with _combine_volumes
CombineStart ==
    /\ pc = "visit"
    /\ ci > NChunks
    /\ wpending' = MapNames
    /\ pc' = "combine"
    /\ UNCHANGED <<auxVars, chainVars, mask, chunks, tmpDir, tmpFiles, maskFile, outDir, outFiles,
                   recalculate, ci, results, wname, roiResult, runs, processed,
                   visits, fresh, last, prev, startTmp, startOut>>

\* _combine_volumes: np.load and Nifti.write_volume_maps for one map name
CombineOne(n) ==
    /\ pc = "combine"
    /\ n \in wpending
    /\ outFiles' = (n :> tmpFiles[n]) @@ outFiles
    /\ outDir' = TRUE
    /\ wpending' = wpending \ {n}
    /\ UNCHANGED <<auxVars, chainVars, mask, chunks, tmpDir, tmpFiles, maskFile, pc,
                   recalculate, ci, results, wname, roiResult, runs, processed,
                   visits, fresh, last, prev, startTmp, startOut>>

\* FittingProcessingWorker.combine: create_roi(read_volume_maps(output_dir), mask)
CombineRoi ==
    /\ pc = "combine"
    /\ wpending = {}
    /\ roiResult' = RoiOfMaps(outFiles)
    /\ pc' = "cleanup"
    /\ UNCHANGED <<auxVars, chainVars, mask, chunks, tmpDir, tmpFiles, maskFile, outDir, outFiles,
                   recalculate, ci, results, wpending, wname, runs, processed,
                   visits, fresh, last, prev, startTmp, startOut>>

\* The chunk store may be deleted after a successful combination; the run
\* then returns its results.
Finish(del) ==
    /\ pc = "cleanup"
    /\ IF del
       THEN /\ tmpDir' = FALSE
            /\ tmpFiles' = NoFiles
            /\ maskFile' = NoMask
       ELSE UNCHANGED <<tmpDir, tmpFiles, maskFile>>
    /\ pc' = "idle"
    /\ last' = [outcome |-> "done", at |-> "combine"]
    /\ UNCHANGED <<auxVars, chainVars, mask, chunks, outDir, outFiles,
                   recalculate, ci, results, wpending, wname, roiResult, runs,
                   processed, visits, fresh, prev, startTmp, startOut>>

\* where in the run a statement is: before the scheduler's loop, in it, after it
Stage(at) ==
    IF at \in {"fit_check", "fit_remove", "fit_mkdir", "prepare"} THEN "setup"
    ELSE IF at \in {"combine", "cleanup"} THEN "combine"
    ELSE "loop"

\* The process is killed: what is on disk stays, what the process held in
\* memory is gone.
Kill ==
    /\ pc # "idle"
    /\ pc' = "idle"
    /\ last' = [outcome |-> "killed", at |-> Stage(pc)]
    /\ ci' = 0
    /\ results' = NoResults
    /\ wpending' = {}
    /\ wname' = <<>>
    /\ processed' = <<>>
    /\ visits' = <<>>
    /\ UNCHANGED <<auxVars, chainVars, mask, chunks, tmpDir, tmpFiles, maskFile, outDir, outFiles,
                   recalculate, roiResult, runs, fresh, prev, startTmp, startOut>>

SchedNext ==
    \/ \E r \in BOOLEAN : StartRun(r)
    \/ FitCheck
    \/ FitRemove
    \/ FitMkdir
    \/ Prepare
    \/ Visit
    \/ Process
    \/ WriteMkdir
    \/ \E n \in ResultNames : WriteOpen(n)
    \/ WriteScatter
    \/ WriteMaskOpen
    \/ WriteMaskOr
    \/ CombineStart
    \/ \E n \in ResultNames : CombineOne(n)
    \/ CombineRoi
    \/ \E del \in BOOLEAN : Finish(del)
    \/ Kill

\* ------------------------------------------------------------ the cascade
Leaf == [leaf |-> TRUE, kids |-> <<>>]
Cascade(ks) == [leaf |-> FALSE, kids |-> ks]

RECURSIVE TreesOfSize(_), ForestsOfSize(_)
TreesOfSize(n) ==
    IF n = 1 THEN {Leaf} ELSE {Cascade(f) : f \in ForestsOfSize(n - 1)}
ForestsOfSize(k) ==
    IF k = 0 THEN {<<>>}
    ELSE UNION { {<<t>> \o f : t \in TreesOfSize(j), f \in ForestsOfSize(k - j)} :
                 j \in 1..k }

\* every model of at most MaxNodes models, cascades counted
Trees == UNION {TreesOfSize(n) : n \in 1..MaxNodes}

RECURSIVE At(_, _)
At(t, path) == IF path = <<>> THEN t ELSE At(t.kids[Head(path)], Tail(path))

RECURSIVE Paths(_)
Paths(t) ==
    {<<>>} \cup UNION { {<<i>> \o q : q \in Paths(t.kids[i])} : i \in 1..Len(t.kids) }

LeafPaths(t) == {q \in Paths(t) : At(t, q).leaf}
CascadePaths(t) == {q \in Paths(t) : ~At(t, q).leaf}

NoneResult == <<0>>

Frame(path, rec, ol, inRec) ==
    [path |-> path, recalc |-> rec, onlyLast |-> ol, inRec |-> inRec,
     phase |-> "enter", prevResults |-> <<>>, lastResults |-> NoneResult]

ChainInit ==
    /\ tree \in Trees
    /\ optRecalculate \in BOOLEAN
    /\ optOnlyLast \in BOOLEAN
    /\ stack = <<>>
    /\ cursor = [q \in CascadePaths(tree) |-> 0]
    /\ namesList = <<>>
    /\ outExists \in SUBSET LeafPaths(tree)
    /\ calls = <<>>
    /\ subcalls = <<>>
    /\ fitRuns = 0
    /\ fitResult = NoneResult

Top == stack[Len(stack)]

\* the cascade's iterator: has_next(), get_next() and reset()
HasNext(pos, path) == pos # Len(At(tree, path).kids)
GetNext(pos) == pos + 1
Reset == 0

\* ModelFit.run: self._run(self._model, self._recalculate, self._only_recalculate_last)
FitRun ==
    /\ stack = <<>>
    /\ fitRuns < MaxRuns
    /\ stack' = <<Frame(<<>>, optRecalculate, optOnlyLast, FALSE)>>
    /\ calls' = <<>>
    /\ subcalls' = <<>>
    /\ UNCHANGED <<auxVars, schedVars, tree, optRecalculate, optOnlyLast, cursor, namesList,
                   outExists, fitRuns, fitResult>>

\* _run: self._model_names_list.append(model.name), then the isinstance test
RunEnter ==
    /\ stack # <<>>
    /\ Top.phase = "enter"
    /\ namesList' = Append(namesList, Top.path)
    /\ stack' = [stack EXCEPT ![Len(stack)].phase =
                    IF At(tree, Top.path).leaf THEN "fit" ELSE "loop"]
    /\ UNCHANGED <<auxVars, schedVars, tree, optRecalculate, optOnlyLast, cursor,
                   outExists, calls, subcalls, fitRuns, fitResult>>

\* every link forced, whatever recalculate is
SubRecalculateAlways(rec, ol, hasNext) == TRUE

\* has_next() read as "this is the last link"
SubRecalculateFlipped(rec, ol, hasNext) ==
    IF rec THEN (IF ol THEN hasNext ELSE TRUE) ELSE FALSE

\* _run: sub_recalculate, from has_next() as it is once get_next has advanced
SubRecalculate(rec, ol, hasNext) ==
    IF rec THEN (IF ol THEN ~hasNext ELSE TRUE) ELSE FALSE

\* the flag cleared for every link
NewInRecursionNever(inRec, hasNext) == FALSE

\* _run: new_in_recursion
NewInRecursion(inRec, hasNext) == ~(~inRec /\ ~hasNext)

\* _run: the only_recalculate_last a sub-model is run with
SubOnlyLast(rec, ol) == rec

\* _run: one iteration of the while loop, up to the recursive call
CascadeNext ==
    /\ stack # <<>>
    /\ Top.phase = "loop"
    /\ HasNext(cursor[Top.path], Top.path)
    /\ LET i == GetNext(cursor[Top.path])
           more == HasNext(i, Top.path)
           rec == SubRecalculate(Top.recalc, Top.onlyLast, more)
           ol == SubOnlyLast(Top.recalc, Top.onlyLast)
           inRec == NewInRecursion(Top.inRec, more)
       IN /\ cursor' = [cursor EXCEPT ![Top.path] = i]
          /\ stack' = Append(stack, Frame(Top.path \o <<i>>, rec, ol, inRec))
          /\ subcalls' = Append(subcalls,
                 [parent |-> Top.path, index |-> i, recalc |-> rec,
                  onlyLast |-> ol, inRec |-> inRec, given |-> Top.prevResults])
    /\ UNCHANGED <<auxVars, schedVars, tree, optRecalculate, optOnlyLast, namesList,
                   outExists, calls, fitRuns, fitResult>>

\* the result of a link kept as last_results but not appended to the list
ReturnNoAppend(r) ==
    LET rest == SubSeq(stack, 1, Len(stack) - 1)
    IN IF rest = <<>>
       THEN /\ stack' = <<>>
            /\ fitResult' = r
            /\ fitRuns' = fitRuns + 1
            /\ UNCHANGED namesList
       ELSE /\ stack' = [rest EXCEPT ![Len(rest)] = [@ EXCEPT !.lastResults = r]]
            /\ namesList' = SubSeq(namesList, 1, Len(namesList) - 1)
            /\ UNCHANGED <<fitResult, fitRuns>>

\* A call of _run returns r: to run(), or into the loop of the cascade that
\* made it, which appends the result and pops the name trail.
Return(r) ==
    LET rest == SubSeq(stack, 1, Len(stack) - 1)
    IN IF rest = <<>>
       THEN /\ stack' = <<>>
            /\ fitResult' = r
            /\ fitRuns' = fitRuns + 1
            /\ UNCHANGED namesList
       ELSE /\ stack' = [rest EXCEPT ![Len(rest)] =
                            [@ EXCEPT !.prevResults = Append(@, r),
                                      !.lastResults = r]]
            /\ namesList' = SubSeq(namesList, 1, Len(namesList) - 1)
            /\ UNCHANGED <<fitResult, fitRuns>>

\* the loop is through and last_results returned, model.reset() left out
CascadeReturnNoReset ==
    /\ stack # <<>>
    /\ Top.phase = "loop"
    /\ ~HasNext(cursor[Top.path], Top.path)
    /\ Return(Top.lastResults)
    /\ UNCHANGED <<auxVars, schedVars, tree, optRecalculate, optOnlyLast, cursor,
                   outExists, calls, subcalls>>

\* _run: the loop is through: model.reset(); return last_results
CascadeReturn ==
    /\ stack # <<>>
    /\ Top.phase = "loop"
    /\ ~HasNext(cursor[Top.path], Top.path)
    /\ cursor' = [cursor EXCEPT ![Top.path] = Reset]
    /\ Return(Top.lastResults)
    /\ UNCHANGED <<auxVars, schedVars, tree, optRecalculate, optOnlyLast,
                   outExists, calls, subcalls>>

\* _run_composite_model: SingleModelFit(model, ..., recalculate).run(), which
\* fits the model unless its output exists and recalculate is not set
RunComposite ==
    /\ stack # <<>>
    /\ Top.phase = "fit"
    /\ calls' = Append(calls,
           [path |-> Top.path, recalc |-> Top.recalc, applyInit |-> ~Top.inRec,
            names |-> namesList, existed |-> (Top.path \in outExists),
            fitted |-> ~FitCheckGuard(Top.recalc, Top.path \in outExists)])
    /\ outExists' = outExists \cup {Top.path}
    /\ Return(Top.path)
    /\ UNCHANGED <<auxVars, schedVars, tree, optRecalculate, optOnlyLast, cursor, subcalls>>

ChainNext ==
    \/ FitRun
    \/ RunEnter
    \/ CascadeNext
    \/ CascadeReturn
    \/ RunComposite

vars == <<schedVars, chainVars, auxVars>>

\* no cascade: the chunked run of one composite model
ChainIdle ==
    /\ tree = Leaf
    /\ optRecalculate = FALSE
    /\ optOnlyLast = FALSE
    /\ stack = <<>>
    /\ cursor = [q \in {} |-> 0]
    /\ namesList = <<>>
    /\ outExists = {}
    /\ calls = <<>>
    /\ subcalls = <<>>
    /\ fitRuns = 0
    /\ fitResult = NoneResult

\* no call of create_roi or restore_volumes
RoiIdle == roiIn = <<>> /\ roiOut = <<>>

\* no sampling
TraceIdle ==
    /\ traceIn = <<>>
    /\ traceFiles = <<>>
    /\ traceAt = 0
    /\ tracePending = {}
    /\ movedTraces = <<>>

ErrIdle == errors = <<>> /\ badRuns = {}

\* no batch
BatchIdle ==
    /\ batchIn = <<>>
    /\ batchSubject = 0
    /\ batchModel = 0
    /\ batchLog = <<>>
    /\ batchRaised = FALSE

\* sample_model is not called
SampleIdle ==
    /\ sampleIn = <<>>
    /\ samplePc = "off"
    /\ baseDir = FALSE
    /\ sampleLog = <<>>

\* _write_volumes is called by the scheduler's run only
WritersIdle ==
    /\ writers = <<>>
    /\ schedule = "sequential"
    /\ nWrites = 0
    /\ flaggedEver = {}

\* no helper is called
UtilIdle == utilIn = <<>> /\ utilOut = <<>>

MoreIdle == SampleIdle /\ WritersIdle /\ UtilIdle

AuxIdle == RoiIdle /\ TraceIdle /\ ErrIdle /\ BatchIdle /\ MoreIdle

Init == SchedInit /\ ChainIdle /\ AuxIdle
Next == SchedNext
Spec == Init /\ [][Next]_vars

\* the cascade recursion alone, over one whole-mask chunk
InitChain == SchedInitFor(Pos, <<Pos>>) /\ ChainInit /\ AuxIdle
SpecChain == InitChain /\ [][ChainNext]_vars

\* ------------------------------------------------ VoxelAddressing on arrays
\* A dense array over the mask's shape: a volume (dim 3) or a series of w
\* volumes (dim 4); data[p] is the row of values at position p.  A voxel list
\* has numpy's shape with it: (N,) or (N, w).
Vals == {1, 2}

RECURSIVE Rows(_)
Rows(w) == IF w = 0 THEN {<<>>} ELSE {r \o <<v>> : r \in Rows(w - 1), v \in Vals}

Zeros(w) == [i \in 1..w |-> 0]

DenseArrays ==
    {[dim |-> 3, w |-> 1, data |-> d] : d \in [Pos -> Rows(1)]}
        \cup UNION { {[dim |-> 4, w |-> w, data |-> d] : d \in [Pos -> Rows(w)]} :
                     w \in 1..MaxW }

\* create_roi.creator: v[brain_mask], a 1-d selection expanded to (N, 1)
Creator(v, m) ==
    [shape |-> <<Cardinality(m), v.w>>,
     rows |-> [i \in 1..Cardinality(m) |-> v.data[ROIOrder(m)[i]]]]

\* return_volume[indices] = voxels for a 1-d return_volume and n indices: numpy
\* broadcasts the value to the shape (n,) of the indexing result, dropping
\* leading dimensions of length 1 only
FancyAssignable1d(n, shape) ==
    \/ Len(shape) = 1 /\ shape[1] \in {1, n}
    \/ Len(shape) = 2 /\ shape[1] = 1 /\ shape[2] \in {1, n}

ValueError == [ok |-> FALSE, dim |-> 0, w |-> 0, data |-> <<>>]

\* restore_volumes.restorer.restore_3d, then np.expand_dims if with_volume_dim
Restore3d(shape, column, m, wvd) ==
    IF FancyAssignable1d(Cardinality(m), shape)
    THEN [ok |-> TRUE, dim |-> IF wvd THEN 4 ELSE 3, w |-> 1,
          data |-> [p \in Pos |-> IF p \in m THEN <<column[Rank(p, m)]>> ELSE Zeros(1)]]
    ELSE ValueError

\* restore_volumes.restorer.restore_4d
Restore4d(vl, m) ==
    [ok |-> TRUE, dim |-> 4, w |-> vl.shape[2],
     data |-> [p \in Pos |-> IF p \in m THEN vl.rows[Rank(p, m)] ELSE Zeros(vl.shape[2])]]

FirstColumn(vl) == [i \in 1..Len(vl.rows) |-> vl.rows[i][1]]

\* restore_volumes.restorer
Restorer(vl, m, wvd) ==
    IF Len(vl.shape) > 1 /\ vl.shape[2] > 1
    THEN IF wvd THEN Restore4d(vl, m)
         ELSE Restore3d(<<vl.shape[1]>>, FirstColumn(vl), m, FALSE)
    ELSE Restore3d(vl.shape, FirstColumn(vl), m, wvd)

RoiInit ==
    /\ roiIn \in [x : DenseArrays, m : SUBSET Pos, wvd : BOOLEAN]
    /\ roiOut = <<>>

\* restore_volumes(create_roi(x, m), m, with_volume_dim=wvd)
RestoreCreateRoi ==
    /\ roiIn # <<>>
    /\ roiOut = <<>>
    /\ roiOut' = Restorer(Creator(roiIn.x, roiIn.m), roiIn.m, roiIn.wvd)
    /\ UNCHANGED <<schedVars, chainVars, roiIn, traceVars, errVars, batchVars, moreVars>>

InitRoi ==
    SchedInitFor(Pos, <<Pos>>) /\ ChainIdle /\ RoiInit /\ TraceIdle /\ ErrIdle /\ BatchIdle /\ MoreIdle
SpecRoi == InitRoi /\ [][RestoreCreateRoi]_vars

\* create_roi(restore_volumes(v, m, with_volume_dim=wvd), m) for a voxel
\* list v of shape (N, w) with one row per active voxel of m
VoxelLists(m) ==
    UNION { {[shape |-> <<Cardinality(m), w>>, rows |-> r] :
                r \in [1..Cardinality(m) -> Rows(w)]} : w \in 1..MaxW }

RoiBackInit ==
    /\ \E m \in (SUBSET Pos) \ {{}} : \E v \in VoxelLists(m) : \E wvd \in BOOLEAN :
          roiIn = [v |-> v, m |-> m, wvd |-> wvd]
    /\ roiOut = <<>>

CreateRoiRestore ==
    /\ roiIn # <<>>
    /\ roiOut = <<>>
    /\ LET vol == Restorer(roiIn.v, roiIn.m, roiIn.wvd)
       IN roiOut' = IF vol.ok
                    THEN [ok |-> TRUE] @@ Creator(vol, roiIn.m)
                    ELSE [ok |-> FALSE, shape |-> <<>>, rows |-> <<>>]
    /\ UNCHANGED <<schedVars, chainVars, roiIn, traceVars, errVars, batchVars, moreVars>>

InitRoiBack ==
    SchedInitFor(Pos, <<Pos>>) /\ ChainIdle /\ RoiBackInit /\ TraceIdle /\ ErrIdle /\ BatchIdle /\ MoreIdle
SpecRoiBack == InitRoiBack /\ [][CreateRoiRestore]_vars

\* ------------------------------------------------------ the sample traces
\* the sampler's retained samples of parameter n at volume position p
Samples(n, p, k) == [j \in 1..k |-> NameIdx(n) * 100 + p * 10 + j]

\* sampler.sample: one row of samples per voxel of the chunk, in ROI order
SampleResults(c, k) ==
    [n \in ResultNames |-> [i \in 1..Cardinality(c) |-> Samples(n, ROIOrder(c)[i], k)]]

\* create_index_matrix(mask): every active position holds its index in the ROI
CreateIndexMatrix(m) == [p \in Pos |-> IF p \in m THEN Rank(p, m) - 1 ELSE 0]

\* indices counted within the chunk's own mask
VoxelIndicesLocal(full, cur) == CreateRoi(CreateIndexMatrix(cur), cur)

\* np.squeeze(create_roi(create_index_matrix(full_mask), current_mask)): one
\* index for a single voxel, to which a (1, k) value is assigned as one row
VoxelIndices(full, cur) == CreateRoi(CreateIndexMatrix(full), cur)

\* open_memmap(samples_path, mode, shape=(total_nmr_voxels, samples.shape[1]))
OpenSamples(files, n, total, k) ==
    IF n \in DOMAIN files THEN files
    ELSE files @@ (n :> [i \in 1..total |-> Zeros(k)])

\* saved[voxel_indices, :] = samples
AssignRows(saved, idx, samples) ==
    [i \in 1..Len(saved) |->
        IF \E j \in 1..Len(idx) : idx[j] + 1 = i
        THEN samples[CHOOSE j \in 1..Len(idx) : idx[j] + 1 = i]
        ELSE saved[i]]

\* one iteration of the loop over results.items(): the file of item n
\* opened, and the rows of the chunk's voxels assigned
WriteSampleItem(files, n, full, cur, k) ==
    [OpenSamples(files, n, Cardinality(full), k) EXCEPT
        ![n] = AssignRows(@, VoxelIndices(full, cur), SampleResults(cur, k)[n])]

NoTraces == [n \in {} |-> <<>>]

TraceInit ==
    /\ \E m \in (SUBSET Pos) \ {{}} : \E cs \in Partitions(m) : \E k \in 1..MaxSamples :
          traceIn = [m |-> m, cs |-> cs, s |-> k]
    /\ traceFiles = NoTraces
    /\ traceAt = 1
    /\ tracePending = ResultNames
    /\ movedTraces = <<>>

\* _write_sample_results: one iteration of the loop over results.items(), for
\* the chunk process() was called with; after the last one the next chunk
WriteSamples(n) ==
    /\ traceAt \in 1..Len(traceIn.cs)
    /\ n \in tracePending
    /\ traceFiles' = WriteSampleItem(traceFiles, n, traceIn.m, traceIn.cs[traceAt],
                                     traceIn.s)
    /\ IF tracePending = {n}
       THEN /\ traceAt' = traceAt + 1
            /\ tracePending' = IF traceAt < Len(traceIn.cs) THEN ResultNames ELSE {}
       ELSE /\ traceAt' = traceAt
            /\ tracePending' = tracePending \ {n}
    /\ UNCHANGED <<schedVars, chainVars, roiVars, traceIn, movedTraces, errVars, batchVars,
                   moreVars>>

InitTrace ==
    SchedInitFor(Pos, <<Pos>>) /\ ChainIdle /\ RoiIdle /\ TraceInit /\ ErrIdle /\ BatchIdle /\ MoreIdle
SpecTrace == InitTrace /\ [][\E n \in ResultNames : WriteSamples(n)]_vars

\* ------------------------------------------------- insufficient input data
\* model.get_input_data_problems(input_data)
InputDataProblems == <<"problem">>

InsufficientProtocolError(entry) ==
    [type |-> "InsufficientProtocolError", entry |-> entry,
     problems |-> InputDataProblems]

EntryPoints == {"ModelFit", "SingleModelFit", "sample_composite_model"}

\* ModelFit(...), SingleModelFit(...) or sample_composite_model(...) is called
\* with input data the model finds insufficient: the test raises, and the
\* caller gets the exception; were it not to raise, the run would go on
ConstructInsufficient(entry, r) ==
    /\ pc = "idle"
    /\ Len(errors) + runs < MaxRuns
    /\ IF InputInsufficient(FALSE)
       THEN /\ errors' = Append(errors, InsufficientProtocolError(entry))
            /\ UNCHANGED <<schedVars, badRuns>>
       ELSE /\ BeginRun(r)
            /\ badRuns' = badRuns \cup {runs + 1}
            /\ UNCHANGED errors
    /\ UNCHANGED <<chainVars, roiVars, traceVars, batchVars, moreVars>>

NextErrors ==
    \/ Next
    \/ \E entry \in EntryPoints : \E r \in BOOLEAN : ConstructInsufficient(entry, r)

SpecErrors == Init /\ [][NextErrors]_vars

\* ---------------------------------------------------------- batch fitting
Subjects == 1..MaxSubjects
Models == 1..MaxModels

BatchInit ==
    /\ batchIn \in [suff : [Subjects -> [Models -> BOOLEAN]],
                    exists : [Subjects -> SUBSET Models],
                    recalc : BOOLEAN]
    /\ batchSubject = 1
    /\ batchModel = 0
    /\ batchLog = <<>>
    /\ batchRaised = FALSE

\* the subject skipped as soon as the output of one model exists
SkipSubjectAny(s) == batchIn.exists[s] # {} /\ ~batchIn.recalc

\* FitFunc.__call__: all(model_output_exists(...) for model in models_to_fit)
\* and not recalculate
SkipSubject(s) ==
    (\A m \in Models : m \in batchIn.exists[s]) /\ ~batchIn.recalc

\* batch_apply calls the function on the subjects one after another
NextSubject(s) == s + 1

\* FitFunc.__call__, up to the loop over models_to_fit
BatchCall ==
    /\ batchSubject \in Subjects
    /\ ~batchRaised
    /\ batchModel = 0
    /\ IF SkipSubject(batchSubject)
       THEN /\ batchLog' = Append(batchLog,
                   [event |-> "skipped", subject |-> batchSubject, model |-> 0])
            /\ batchSubject' = NextSubject(batchSubject)
            /\ UNCHANGED batchModel
       ELSE /\ batchLog' = Append(batchLog,
                   [event |-> "loaded", subject |-> batchSubject, model |-> 0])
            /\ batchModel' = 1
            /\ UNCHANGED batchSubject
    /\ UNCHANGED <<schedVars, chainVars, roiVars, traceVars, errVars, batchIn, batchRaised, moreVars>>

\* no except clause takes the exception
CaughtNever(type) == FALSE

\* except InsufficientProtocolError as ex
Caught(type) == type = "InsufficientProtocolError"

\* FitFunc.__call__: one iteration of the loop over models_to_fit:
\* ModelFit(model, ...).run() in the try block, with its except and else
BatchFit ==
    /\ batchSubject \in Subjects
    /\ ~batchRaised
    /\ batchModel \in Models
    /\ LET raises == InputInsufficient(batchIn.suff[batchSubject][batchModel])
           ex == InsufficientProtocolError("ModelFit")
           last_model == batchModel = MaxModels
       IN IF raises /\ ~Caught(ex.type)
          THEN /\ batchRaised' = TRUE
               /\ UNCHANGED <<batchLog, batchSubject, batchModel>>
          ELSE /\ batchLog' = Append(batchLog,
                      [event |-> IF raises THEN "could not fit" ELSE "done fitting",
                       subject |-> batchSubject, model |-> batchModel])
               /\ batchModel' = IF last_model THEN 0 ELSE batchModel + 1
               /\ batchSubject' = IF last_model THEN NextSubject(batchSubject)
                                  ELSE batchSubject
               /\ UNCHANGED batchRaised
    /\ UNCHANGED <<schedVars, chainVars, roiVars, traceVars, errVars, batchIn, moreVars>>

InitBatch ==
    SchedInitFor(Pos, <<Pos>>) /\ ChainIdle /\ RoiIdle /\ TraceIdle /\ ErrIdle /\ BatchInit /\ MoreIdle
SpecBatch == InitBatch /\ [][BatchCall \/ BatchFit]_vars

\* A declared output array file of the chunk store is lost between two runs
\* (a partial or corrupted prior run): the StorageInconsistent condition.
LoseArrayFile(n) ==
    /\ pc = "idle"
    /\ n \in DOMAIN tmpFiles
    /\ tmpFiles' = [m \in (DOMAIN tmpFiles) \ {n} |-> tmpFiles[m]]
    /\ UNCHANGED <<auxVars, chainVars, mask, chunks, tmpDir, maskFile, outDir, outFiles, pc,
                   recalculate, ci, results, wpending, wname, roiResult, runs,
                   processed, visits, fresh, last, prev, startTmp, startOut>>

NextInconsistent ==
    \/ Next
    \/ \E n \in DeclaredNames : LoseArrayFile(n)

SpecInconsistent == Init /\ [][NextInconsistent]_vars

\* ------------------------------------------------------- a sampling run
\* The chunk loop with the SamplingProcessingWorker: tmpFiles and maskFile
\* are the arrays and the processed-mask of <tmp_storage_dir>/volume_maps,
\* traceFiles the *.samples.npy of tmp_storage_dir.

\* the sample files all taken as written after the first item
SampleLoopDoneEarly(pending) == TRUE

\* _write_sample_results: the loop over results.items() is through
SampleLoopDone(pending) == pending = {}

\* sample_model(..., recalculate=r) up to the chunk loop: base_dir removed
\* when recalculate is set, and the storage directory, which lies inside
\* it, goes with it; sample_composite_model returns the samples of the
\* output folder when a finished run left its UsedMask there
BeginSampling(r) ==
    /\ pc = "idle"
    /\ runs < MaxRuns
    /\ runs' = runs + 1
    /\ recalculate' = r
    /\ prev' = [outcome |-> last.outcome, at |-> last.at,
                recalc |-> recalculate, fresh |-> fresh]
    /\ startTmp' = [dir |-> tmpDir, files |-> tmpFiles, mask |-> maskFile]
    /\ startOut' = [dir |-> outDir, files |-> outFiles]
    /\ processed' = <<>>
    /\ visits' = <<>>
    /\ IF ~r /\ last.outcome \in {"done", "cached"}
       THEN /\ last' = [outcome |-> "cached", at |-> "setup"]
            /\ UNCHANGED <<pc, outDir, outFiles, movedTraces,
                           tmpDir, tmpFiles, maskFile, traceFiles>>
       ELSE /\ pc' = "s_prepare"
            /\ last' = [outcome |-> "live", at |-> "idle"]
            /\ outDir' = TRUE
            /\ outFiles' = IF r THEN NoFiles ELSE outFiles
            /\ movedTraces' = IF r THEN NoTraces ELSE movedTraces
            /\ tmpDir' = IF r THEN FALSE ELSE tmpDir
            /\ tmpFiles' = IF r THEN NoFiles ELSE tmpFiles
            /\ maskFile' = IF r THEN NoMask ELSE maskFile
            /\ traceFiles' = IF r THEN NoTraces ELSE traceFiles
    /\ UNCHANGED <<chainVars, roiVars, errVars, batchVars, moreVars,
                   traceIn, traceAt, tracePending,
                   mask, chunks, ci, results, wpending,
                   wname, roiResult, fresh>>

\* _prepare_tmp_storage_dir: rmtree takes the sample files with it
SamplingPrepare ==
    /\ pc = "s_prepare"
    /\ LET st == PrepareTmpStorageDir(recalculate, tmpDir, tmpFiles, maskFile)
       IN /\ tmpDir' = st[1]
          /\ tmpFiles' = st[2]
          /\ maskFile' = st[3]
          /\ fresh' = (st[2] = NoFiles /\ ~st[3].exists)
    /\ traceFiles' = IF recalculate /\ tmpDir THEN NoTraces ELSE traceFiles
    /\ ci' = 1
    /\ pc' = "visit"
    /\ UNCHANGED <<chainVars, roiVars, errVars, batchVars, moreVars,
                   traceIn, traceAt, tracePending, movedTraces,
                   mask, chunks, outDir, outFiles, recalculate, results, wpending,
                   wname, roiResult, runs, processed, visits, last, prev,
                   startTmp, startOut>>

\* SamplingProcessingWorker.process: self._sampler.sample(model, full_output=True)
SamplingProcess ==
    /\ pc = "process"
    /\ results' = MinimizeResults(chunks[ci])
    /\ processed' = Append(processed, ci)
    /\ traceAt' = ci
    /\ tracePending' = ResultNames
    /\ pc' = "s_traces"
    /\ UNCHANGED <<chainVars, roiVars, errVars, batchVars, moreVars,
                   traceIn, traceFiles, movedTraces,
                   mask, chunks, tmpDir, tmpFiles, maskFile, outDir, outFiles,
                   recalculate, ci, wpending, wname, roiResult, runs,
                   visits, fresh, last, prev, startTmp, startOut>>

\* _write_sample_results(results, problem_data.mask, mask, tmp_storage_dir):
\* one item of results.items(); after the last, process goes on to
\* _write_volumes(other_output, mask, <tmp_storage_dir>/volume_maps)
SamplingWriteTraces(n) ==
    /\ pc = "s_traces"
    /\ n \in tracePending
    /\ traceFiles' = WriteSampleItem(traceFiles, n, mask, chunks[ci], traceIn.s)
    /\ tracePending' = tracePending \ {n}
    /\ pc' = IF SampleLoopDone(tracePending \ {n}) THEN "w_mkdir" ELSE "s_traces"
    /\ UNCHANGED <<chainVars, roiVars, errVars, batchVars, moreVars,
                   traceIn, traceAt, movedTraces,
                   mask, chunks, tmpDir, tmpFiles, maskFile, outDir, outFiles,
                   recalculate, ci, results, wpending, wname, roiResult, runs,
                   processed, visits, fresh, last, prev, startTmp, startOut>>

\* SamplingProcessingWorker.combine: shutil.move of one *.samples.npy of
\* the storage directory, once _combine_volumes is through
SamplingMove(n) ==
    /\ pc = "combine"
    /\ wpending = {}
    /\ n \in DOMAIN traceFiles
    /\ n \notin DOMAIN movedTraces
    /\ movedTraces' = (n :> traceFiles[n]) @@ movedTraces
    /\ traceFiles' = [m \in (DOMAIN traceFiles) \ {n} |-> traceFiles[m]]
    /\ UNCHANGED <<schedVars, chainVars, roiVars, errVars, batchVars, moreVars,
                   traceIn, traceAt, tracePending>>

\* ... return load_samples(output_dir); the storage directory may then be
\* deleted, and the run returns
SamplingReturn(del) ==
    /\ pc = "combine"
    /\ wpending = {}
    /\ DOMAIN traceFiles = {}
    /\ IF del
       THEN /\ tmpDir' = FALSE
            /\ tmpFiles' = NoFiles
            /\ maskFile' = NoMask
       ELSE UNCHANGED <<tmpDir, tmpFiles, maskFile>>
    /\ pc' = "idle"
    /\ last' = [outcome |-> "done", at |-> "combine"]
    /\ UNCHANGED <<auxVars, chainVars, mask, chunks, outDir, outFiles,
                   recalculate, ci, results, wpending, wname, roiResult, runs,
                   processed, visits, fresh, prev, startTmp, startOut>>

SamplingNext ==
    \/ \E r \in BOOLEAN : BeginSampling(r)
    \/ SamplingPrepare
    \/ Visit
    \/ SamplingProcess
    \/ \E n \in ResultNames : SamplingWriteTraces(n)
    \/ WriteMkdir
    \/ \E n \in ResultNames : WriteOpen(n)
    \/ WriteScatter
    \/ WriteMaskOpen
    \/ WriteMaskOr
    \/ CombineStart
    \/ \E n \in ResultNames : CombineOne(n)
    \/ \E n \in ResultNames : SamplingMove(n)
    \/ \E del \in BOOLEAN : SamplingReturn(del)
    \/ Kill

InitSampling ==
    /\ SchedInit /\ ChainIdle
    /\ RoiIdle /\ ErrIdle /\ BatchIdle /\ MoreIdle
    /\ \E k \in 1..MaxSamples : traceIn = [m |-> mask, cs |-> chunks, s |-> k]
    /\ traceFiles = NoTraces
    /\ traceAt = 0
    /\ tracePending = {}
    /\ movedTraces = NoTraces

SpecSampling == InitSampling /\ [][SamplingNext]_vars

\* ------------------------------------------------- a link that raises
\* _run_composite_model raises: SingleModelFit(...) finds the input data
\* insufficient for this model, and the exception leaves every call of _run
\* that is on the stack and then run()
RunCompositeRaise ==
    /\ stack # <<>>
    /\ Top.phase = "fit"
    /\ errors' = Append(errors, InsufficientProtocolError("SingleModelFit"))
    /\ stack' = <<>>
    /\ fitRuns' = fitRuns + 1
    /\ fitResult' = NoneResult
    /\ UNCHANGED <<schedVars, roiVars, traceVars, batchVars, moreVars, badRuns,
                   tree, optRecalculate, optOnlyLast, cursor, namesList,
                   outExists, calls, subcalls>>

NextChainRaise ==
    \/ ChainNext
    \/ RunCompositeRaise

SpecChainRaise == InitChain /\ [][NextChainRaise]_vars

\* ------------------------------------------------- runs that are let run
\* A run of the scheduler is killed and restarted without recalculate, as
\* often as MaxRuns allows, or a chain of models is run; whatever runs takes
\* its next step, and a killed run is restarted.

\* the first call of run(), with recalculate=r
LiveStart(r) ==
    /\ runs = 0
    /\ ChainIdle
    /\ StartRun(r)

\* the killed run is started again, recalculate not set
LiveRestart ==
    /\ last.outcome = "killed"
    /\ StartRun(FALSE)

\* the process is killed, and a restart can follow
LiveKill ==
    /\ runs < MaxRuns
    /\ Kill

\* the next statement of the run
LiveStep ==
    \/ FitCheck
    \/ FitRemove
    \/ FitMkdir
    \/ Prepare
    \/ Visit
    \/ Process
    \/ WriteMkdir
    \/ \E n \in ResultNames : WriteOpen(n)
    \/ WriteScatter
    \/ WriteMaskOpen
    \/ WriteMaskOr
    \/ CombineStart
    \/ \E n \in ResultNames : CombineOne(n)
    \/ CombineRoi
    \/ \E del \in BOOLEAN : Finish(del)

\* ModelFit.run() is called where no scheduler run of its own is modelled
LiveFitRun ==
    /\ runs = 0
    /\ pc = "idle"
    /\ chunks = <<Pos>>
    /\ FitRun

\* the next statement of _run
LiveChainStep ==
    \/ RunEnter
    \/ CascadeNext
    \/ CascadeReturn
    \/ RunComposite

NextLive ==
    \/ \E r \in BOOLEAN : LiveStart(r)
    \/ LiveRestart
    \/ LiveKill
    \/ LiveStep
    \/ LiveFitRun
    \/ LiveChainStep

InitLive == Init \/ InitChain

\* a process that is not killed goes on, and a killed run is restarted
LiveFairness ==
    /\ WF_vars(LiveStep)
    /\ WF_vars(LiveRestart)
    /\ WF_vars(LiveChainStep)

SpecLive == InitLive /\ [][NextLive]_vars /\ LiveFairness

\* ------------------------------------------- a run on another input mask
\* The next run on the same output path is given input data with another
\* mask, partitioned anew; the chunk store and the output stay as they are.
NewInputMask(m, cs) ==
    /\ pc = "idle"
    /\ runs >= 1
    /\ runs < MaxRuns
    /\ m # mask
    /\ mask' = m
    /\ chunks' = cs
    /\ UNCHANGED <<auxVars, chainVars, tmpDir, tmpFiles, maskFile, outDir, outFiles, pc,
                   recalculate, ci, results, wpending, wname, roiResult, runs,
                   processed, visits, fresh, last, prev, startTmp, startOut>>

NextRemask ==
    \/ Next
    \/ \E m \in (SUBSET Pos) \ {{}} : \E cs \in Partitions(m) : NewInputMask(m, cs)

SpecRemask == Init /\ [][NextRemask]_vars

\* ------------------------------------------ calls of _write_volumes alone
\* Calls of _write_volumes on one storage directory, each for a chunk of the
\* partition and with the optimizer's results for it: up to MaxWrites calls
\* one after another, or one call by each of two writers with their
\* statements interleaved.
Writers == {"a", "b"}

NoStore == [files |-> NoFiles, mask |-> NoMask]

NoWriter ==
    [pc |-> "idle", ci |-> 0, pending |-> {}, name |-> <<>>, mode |-> "none",
     seen |-> {}, before |-> NoStore]

WritersInit ==
    /\ writers = [w \in Writers |-> NoWriter]
    /\ schedule \in {"sequential", "interleaved"}
    /\ nWrites = 0
    /\ flaggedEver = {}

\* mode 'w+' whatever is there
FileModeCreate(exists) == "w+"

\* mode = 'w+'; if os.path.isfile(path): mode = 'r+'
FileMode(exists) == IF exists THEN "r+" ELSE "w+"

\* open_memmap(storage_path, mode=mode, ...): 'w+' makes the file anew,
\* zero-filled, 'r+' maps the file that is there
OpenMemmapMode(files, n, mode) ==
    IF mode = "w+" THEN (n :> ZeroVolume) @@ files ELSE files

\* open_memmap(mask_path, mode=mode, dtype=np.bool, ...)
OpenMaskMode(mf, mode) ==
    IF mode = "w+" THEN [exists |-> TRUE, bits |-> {}] ELSE mf

\* _write_volumes(results, mask, tmp_dir) is called for chunk i:
\* if not os.path.exists(tmp_dir): os.makedirs(tmp_dir)
WriterCall(w, i) ==
    /\ writers[w].pc = "idle"
    /\ IF schedule = "sequential"
       THEN nWrites < MaxWrites /\ \A v \in Writers : writers[v].pc = "idle"
       ELSE nWrites < Cardinality(Writers)
    /\ i \in 1..NChunks
    /\ writers' = [writers EXCEPT ![w] =
           [NoWriter EXCEPT !.pc = "loop", !.ci = i, !.pending = ResultNames,
                            !.before = IF schedule = "sequential"
                                       THEN [files |-> tmpFiles, mask |-> maskFile]
                                       ELSE NoStore]]
    /\ tmpDir' = TRUE
    /\ nWrites' = nWrites + 1
    /\ UNCHANGED <<chainVars, roiVars, traceVars, errVars, batchVars, sampleVars, utilVars,
                   schedule, flaggedEver,
                   mask, chunks, tmpFiles, maskFile, outDir, outFiles, pc,
                   recalculate, ci, results, wpending, wname, roiResult, runs,
                   processed, visits, fresh, last, prev, startTmp, startOut>>

\* the next item of results.items(): the os.path.isfile test for its array
WriterIsFile(w, n) ==
    /\ writers[w].pc = "loop"
    /\ n \in writers[w].pending
    /\ writers' = [writers EXCEPT ![w].pc = "open", ![w].name = n,
                                  ![w].mode = FileMode(n \in DOMAIN tmpFiles)]
    /\ UNCHANGED <<schedVars, chainVars, roiVars, traceVars, errVars, batchVars,
                   sampleVars, utilVars, schedule, nWrites, flaggedEver>>

\* tmp_matrix = open_memmap(storage_path, mode=mode, ...)
WriterOpen(w) ==
    /\ writers[w].pc = "open"
    /\ tmpFiles' = OpenMemmapMode(tmpFiles, writers[w].name, writers[w].mode)
    /\ writers' = [writers EXCEPT ![w].pc = "scatter"]
    /\ UNCHANGED <<chainVars, roiVars, traceVars, errVars, batchVars, sampleVars, utilVars,
                   schedule, nWrites, flaggedEver,
                   mask, chunks, tmpDir, maskFile, outDir, outFiles, pc,
                   recalculate, ci, results, wpending, wname, roiResult, runs,
                   processed, visits, fresh, last, prev, startTmp, startOut>>

\* tmp_matrix[mask] = result_array
WriterScatter(w) ==
    /\ writers[w].pc = "scatter"
    /\ LET c == chunks[writers[w].ci]
           n == writers[w].name
       IN tmpFiles' = [tmpFiles EXCEPT ![n] = Scatter(@, c, MinimizeResults(c)[n])]
    /\ writers' = [writers EXCEPT ![w].pc = "loop", ![w].name = <<>>,
                                  ![w].pending = @ \ {writers[w].name}]
    /\ UNCHANGED <<chainVars, roiVars, traceVars, errVars, batchVars, sampleVars, utilVars,
                   schedule, nWrites, flaggedEver,
                   mask, chunks, tmpDir, maskFile, outDir, outFiles, pc,
                   recalculate, ci, results, wpending, wname, roiResult, runs,
                   processed, visits, fresh, last, prev, startTmp, startOut>>

\* the loop is through: the os.path.isfile test for __mask.npy
WriterMaskIsFile(w) ==
    /\ writers[w].pc = "loop"
    /\ LoopDone(writers[w].pending)
    /\ writers' = [writers EXCEPT ![w].pc = "mask_open",
                                  ![w].mode = FileMode(maskFile.exists)]
    /\ UNCHANGED <<schedVars, chainVars, roiVars, traceVars, errVars, batchVars,
                   sampleVars, utilVars, schedule, nWrites, flaggedEver>>

\* tmp_mask = open_memmap(mask_path, mode=mode, ...)
WriterMaskOpen(w) ==
    /\ writers[w].pc = "mask_open"
    /\ maskFile' = OpenMaskMode(maskFile, writers[w].mode)
    /\ writers' = [writers EXCEPT ![w].pc = "mask_read"]
    /\ UNCHANGED <<chainVars, roiVars, traceVars, errVars, batchVars, sampleVars, utilVars,
                   schedule, nWrites, flaggedEver,
                   mask, chunks, tmpDir, tmpFiles, outDir, outFiles, pc,
                   recalculate, ci, results, wpending, wname, roiResult, runs,
                   processed, visits, fresh, last, prev, startTmp, startOut>>

\* np.logical_or(tmp_mask, mask) is computed from the mask as it is read
WriterMaskRead(w) ==
    /\ writers[w].pc = "mask_read"
    /\ writers' = [writers EXCEPT ![w].pc = "mask_write",
                                  ![w].seen = MaskOr(maskFile.bits, chunks[writers[w].ci])]
    /\ UNCHANGED <<schedVars, chainVars, roiVars, traceVars, errVars, batchVars,
                   sampleVars, utilVars, schedule, nWrites, flaggedEver>>

\* tmp_mask[:] = <the value computed>, and _write_volumes returns
WriterMaskWrite(w) ==
    /\ writers[w].pc = "mask_write"
    /\ maskFile' = [maskFile EXCEPT !.bits = writers[w].seen]
    /\ flaggedEver' = flaggedEver \cup chunks[writers[w].ci]
    /\ writers' = [writers EXCEPT ![w].pc = "idle", ![w].mode = "none",
                                  ![w].seen = {}]
    /\ UNCHANGED <<chainVars, roiVars, traceVars, errVars, batchVars, sampleVars, utilVars,
                   schedule, nWrites,
                   mask, chunks, tmpDir, tmpFiles, outDir, outFiles, pc,
                   recalculate, ci, results, wpending, wname, roiResult, runs,
                   processed, visits, fresh, last, prev, startTmp, startOut>>

WritersNext ==
    \E w \in Writers :
        \/ \E i \in 1..MaxChunks : WriterCall(w, i)
        \/ \E n \in ResultNames : WriterIsFile(w, n)
        \/ WriterOpen(w)
        \/ WriterScatter(w)
        \/ WriterMaskIsFile(w)
        \/ WriterMaskOpen(w)
        \/ WriterMaskRead(w)
        \/ WriterMaskWrite(w)

InitWriters ==
    /\ SchedInit /\ ChainIdle
    /\ RoiIdle /\ TraceIdle /\ ErrIdle /\ BatchIdle
    /\ SampleIdle /\ WritersInit /\ UtilIdle

SpecWriters == InitWriters /\ [][WritersNext]_vars

\* ----------------------------------------------------------- sample_model
\* sample_model(model, input_data, output_folder, ..., recalculate=...)
SampleInit ==
    /\ \E n, c, pp, r \in BOOLEAN : \E cl \in {"None", "int", "list"} :
          sampleIn = [byName |-> n, cascade |-> c, postProcessing |-> pp,
                      clDevice |-> cl, recalculate |-> r]
    /\ samplePc = "start"
    /\ baseDir \in BOOLEAN
    /\ sampleLog = <<>>

\* no model taken for a cascade
IsCascadeNever(cascade) == FALSE

\* isinstance(model, DMRICascadeModelInterface)
IsCascade(cascade) == cascade

\* if isinstance(model, string_types): model = get_model(model)()
SampleGetModel ==
    /\ samplePc = "start"
    /\ sampleLog' = IF sampleIn.byName THEN Append(sampleLog, "get_model") ELSE sampleLog
    /\ samplePc' = "post_processing"
    /\ UNCHANGED <<schedVars, chainVars, roiVars, traceVars, errVars, batchVars,
                   sampleIn, baseDir, writerVars, utilVars>>

\* if post_processing: model.update_active_post_processing(...)
SamplePostProcessing ==
    /\ samplePc = "post_processing"
    /\ sampleLog' = IF sampleIn.postProcessing
                    THEN Append(sampleLog, "update_active_post_processing")
                    ELSE sampleLog
    /\ samplePc' = "cascade_test"
    /\ UNCHANGED <<schedVars, chainVars, roiVars, traceVars, errVars, batchVars,
                   sampleIn, baseDir, writerVars, utilVars>>

\* if isinstance(model, DMRICascadeModelInterface): raise ValueError(...)
SampleCascadeTest ==
    /\ samplePc = "cascade_test"
    /\ samplePc' = IF IsCascade(sampleIn.cascade) THEN "ValueError" ELSE "cl_device"
    /\ UNCHANGED <<schedVars, chainVars, roiVars, traceVars, errVars, batchVars,
                   sampleIn, baseDir, sampleLog, writerVars, utilVars>>

\* the cl_device_ind handling and the configuration context entered
SampleClDevice ==
    /\ samplePc = "cl_device"
    /\ sampleLog' = IF sampleIn.clDevice = "None" THEN sampleLog
                    ELSE Append(sampleLog, "get_cl_devices")
    /\ samplePc' = "makedirs"
    /\ UNCHANGED <<schedVars, chainVars, roiVars, traceVars, errVars, batchVars,
                   sampleIn, baseDir, writerVars, utilVars>>

\* if not os.path.isdir(base_dir): os.makedirs(base_dir)
SampleMakedirs ==
    /\ samplePc = "makedirs"
    /\ baseDir' = TRUE
    /\ sampleLog' = IF baseDir THEN sampleLog ELSE Append(sampleLog, "makedirs")
    /\ samplePc' = "rmtree"
    /\ UNCHANGED <<schedVars, chainVars, roiVars, traceVars, errVars, batchVars,
                   sampleIn, writerVars, utilVars>>

\* if recalculate: shutil.rmtree(base_dir)
SampleRmtree ==
    /\ samplePc = "rmtree"
    /\ baseDir' = IF sampleIn.recalculate THEN FALSE ELSE baseDir
    /\ sampleLog' = IF sampleIn.recalculate THEN Append(sampleLog, "rmtree") ELSE sampleLog
    /\ samplePc' = "sample"
    /\ UNCHANGED <<schedVars, chainVars, roiVars, traceVars, errVars, batchVars,
                   sampleIn, writerVars, utilVars>>

\* results = sample_composite_model(model, input_data, base_dir, ...), which
\* makes the output folder when it is not there
SampleComposite ==
    /\ samplePc = "sample"
    /\ baseDir' = TRUE
    /\ sampleLog' = Append(sampleLog, "sample_composite_model")
    /\ samplePc' = "save_script"
    /\ UNCHANGED <<schedVars, chainVars, roiVars, traceVars, errVars, batchVars,
                   sampleIn, writerVars, utilVars>>

\* easy_save_user_script_info(...); return results
SampleReturn ==
    /\ samplePc = "save_script"
    /\ sampleLog' = Append(sampleLog, "easy_save_user_script_info")
    /\ samplePc' = "returned"
    /\ UNCHANGED <<schedVars, chainVars, roiVars, traceVars, errVars, batchVars,
                   sampleIn, baseDir, writerVars, utilVars>>

SampleNext ==
    \/ SampleGetModel
    \/ SamplePostProcessing
    \/ SampleCascadeTest
    \/ SampleClDevice
    \/ SampleMakedirs
    \/ SampleRmtree
    \/ SampleComposite
    \/ SampleReturn

InitSample ==
    /\ SchedInitFor(Pos, <<Pos>>) /\ ChainIdle
    /\ RoiIdle /\ TraceIdle /\ ErrIdle /\ BatchIdle
    /\ SampleInit /\ WritersIdle /\ UtilIdle

SpecSample == InitSample /\ [][SampleNext]_vars

\* ------------------------------------------------- sample_composite_model
\* sample_composite_model(model, input_data, output_folder, ...,
\* recalculate, store_samples, sample_items_to_save, initialization_data);
\* usedMask: the output folder holds UsedMask.nii.gz or UsedMask.nii
CompositeInit ==
    /\ \E suff, used, init, r, store, items \in BOOLEAN :
          sampleIn = [sufficient |-> suff, usedMask |-> used, initData |-> init,
                      recalculate |-> r, storeSamples |-> store, itemsToSave |-> items]
    /\ samplePc = "c_start"
    /\ baseDir \in BOOLEAN
    /\ sampleIn.usedMask => baseDir
    /\ sampleLog = <<>>

\* the samples storage strategy chosen from store_samples and
\* sample_items_to_save
StorageStrategy(store, items) ==
    IF store THEN (IF items THEN "SaveSpecificMaps" ELSE "SaveAllSamples")
    ELSE "SaveNoSamples"

\* if not model.is_input_data_sufficient(input_data): raise
CompositeSufficient ==
    /\ samplePc = "c_start"
    /\ samplePc' = IF InputInsufficient(sampleIn.sufficient)
                   THEN "InsufficientProtocolError" ELSE "c_shortcut"
    /\ UNCHANGED <<schedVars, chainVars, roiVars, traceVars, errVars, batchVars,
                   sampleIn, baseDir, sampleLog, writerVars, utilVars>>

\* the stored samples never taken
ShortcutNever(rec, used) == FALSE

\* if not recalculate: if os.path.exists(<output_folder>/UsedMask.nii[.gz])
Shortcut(rec, used) == ~rec /\ used

\* ... return load_samples(output_folder)
CompositeShortcut ==
    /\ samplePc = "c_shortcut"
    /\ IF Shortcut(sampleIn.recalculate, sampleIn.usedMask)
       THEN /\ sampleLog' = Append(sampleLog, "load_samples")
            /\ samplePc' = "returned"
       ELSE /\ samplePc' = "c_prepare"
            /\ UNCHANGED sampleLog
    /\ UNCHANGED <<schedVars, chainVars, roiVars, traceVars, errVars, batchVars,
                   sampleIn, baseDir, writerVars, utilVars>>

\* os.makedirs(output_folder) when it is not there; model.set_input_data;
\* initialization_data.apply_to_model when initialization data is given
CompositePrepare ==
    /\ samplePc = "c_prepare"
    /\ baseDir' = TRUE
    /\ sampleLog' = (IF baseDir THEN sampleLog ELSE Append(sampleLog, "makedirs"))
                        \o <<"set_input_data">>
                        \o (IF sampleIn.initData THEN <<"apply_to_model">> ELSE <<>>)
    /\ samplePc' = "c_process"
    /\ UNCHANGED <<schedVars, chainVars, roiVars, traceVars, errVars, batchVars,
                   sampleIn, writerVars, utilVars>>

\* return processing_strategy.process(SamplingProcessor(...))
CompositeProcess ==
    /\ samplePc = "c_process"
    /\ sampleLog' = sampleLog \o
           <<"process", StorageStrategy(sampleIn.storeSamples, sampleIn.itemsToSave)>>
    /\ samplePc' = "returned"
    /\ UNCHANGED <<schedVars, chainVars, roiVars, traceVars, errVars, batchVars,
                   sampleIn, baseDir, writerVars, utilVars>>

CompositeNext ==
    \/ CompositeSufficient
    \/ CompositeShortcut
    \/ CompositePrepare
    \/ CompositeProcess

InitComposite ==
    /\ SchedInitFor(Pos, <<Pos>>) /\ ChainIdle
    /\ RoiIdle /\ TraceIdle /\ ErrIdle /\ BatchIdle
    /\ CompositeInit /\ WritersIdle /\ UtilIdle

SpecComposite == InitComposite /\ [][CompositeNext]_vars

\* -------------------------------------------------------- get_model_config
\* get_model_config(model_names, config): the keys of config are regular
\* expressions, [tuple |-> FALSE, rx |-> <<r>>] for a string key and
\* [tuple |-> TRUE, rx |-> <<r1, ..., rn>>] for a tuple; config is the dict
\* in insertion order, and the content of its i-th key is i.
ModelNames == {"A", "B"}
Regexes == {"^A$", ""}

\* re.match(regex, name)
ReMatch(rx, name) == rx = "" \/ (rx = "^A$" /\ name = "A")

ConfigKeys ==
    {[tuple |-> FALSE, rx |-> <<r>>] : r \in Regexes}
        \cup UNION { {[tuple |-> TRUE, rx |-> t] : t \in [1..n -> Regexes]} :
                     n \in 1..MaxKeyLen }

Configs ==
    UNION { {c \in [1..n -> ConfigKeys] : \A i, j \in 1..n : c[i] = c[j] => i = j} :
            n \in 0..MaxKeys }

NameTrails == UNION { [1..n -> ModelNames] : n \in 1..MaxTrail }

EmptyDict == 0

GetKeyLength(key) == IF key.tuple THEN Len(key.rx) ELSE 1

\* is_match(model_names, config_key)
IsMatch(names, key) ==
    /\ Len(names) = GetKeyLength(key)
    /\ IF key.tuple
       THEN \A ind \in 1..Len(key.rx) : ReMatch(key.rx[ind], names[ind])
       ELSE ReMatch(key.rx[1], names[1])

\* the positions of the keys, sorted by key length; sorted() is stable
RECURSIVE AscendingFrom(_, _)
AscendingFrom(config, len) ==
    IF len > MaxKeyLen + 1 THEN <<>>
    ELSE SelectSeq([i \in 1..Len(config) |-> i],
                   LAMBDA i : GetKeyLength(config[i]) = len)
            \o AscendingFrom(config, len + 1)

AscendingKeys(config) == AscendingFrom(config, 0)

\* the partial matches tried before the direct ones
FirstFoundPartial(direct, lastName, moving) ==
    IF lastName # <<>> THEN lastName[1]
    ELSE IF moving # <<>> THEN moving[1]
    ELSE IF direct # <<>> THEN direct[1]
    ELSE EmptyDict

\* the three loops in their order, each returning at its first match
FirstFound(direct, lastName, moving) ==
    IF direct # <<>> THEN direct[1]
    ELSE IF lastName # <<>> THEN lastName[1]
    ELSE IF moving # <<>> THEN moving[1]
    ELSE EmptyDict

GetModelConfig(names, config) ==
    IF config = <<>> THEN EmptyDict
    ELSE LET asc == AscendingKeys(config)
             direct == SelectSeq(asc, LAMBDA i : IsMatch(names, config[i]))
             lastName == SelectSeq(asc, LAMBDA i :
                        /\ ~config[i].tuple
                        /\ IsMatch(<<names[Len(names)]>>, config[i]))
             moving == SelectSeq(asc, LAMBDA i :
                        /\ config[i].tuple
                        /\ \E start \in 1..Len(config[i].rx) :
                              IsMatch(names, [tuple |-> TRUE,
                                  rx |-> SubSeq(config[i].rx, start, Len(config[i].rx))]))
         IN FirstFound(direct, lastName, moving)

ConfigInit ==
    /\ \E names \in NameTrails : \E config \in Configs :
          utilIn = [names |-> names, config |-> config]
    /\ utilOut = <<>>

GetModelConfigCall ==
    /\ utilIn # <<>>
    /\ utilOut = <<>>
    /\ utilOut' = [content |-> GetModelConfig(utilIn.names, utilIn.config)]
    /\ UNCHANGED <<schedVars, chainVars, roiVars, traceVars, errVars, batchVars,
                   sampleVars, writerVars, utilIn>>

InitConfig ==
    /\ SchedInitFor(Pos, <<Pos>>) /\ ChainIdle
    /\ RoiIdle /\ TraceIdle /\ ErrIdle /\ BatchIdle
    /\ SampleIdle /\ WritersIdle /\ ConfigInit

SpecConfig == InitConfig /\ [][GetModelConfigCall]_vars

\* ---------------------------------------------------- recursive_merge_dict
\* A value of a dictionary is [map |-> FALSE, val |-> n] for a number and
\* [map |-> TRUE, val |-> d] for a dictionary d, a function on its keys.
DictKeys == {"k1", "k2"}

\* the numbers held by the first dictionary, and by the update
OldLeaves == {1}
NewLeaves == {2}

EmptyMap == [map |-> TRUE, val |-> [k \in {} |-> 0]]

RECURSIVE DictsOf(_, _)
DictsOf(depth, leaves) ==
    LET vals == {[map |-> FALSE, val |-> n] : n \in leaves}
                  \cup (IF depth = 0 THEN {}
                        ELSE {[map |-> TRUE, val |-> d] : d \in DictsOf(depth - 1, leaves)})
    IN UNION { [S -> vals] : S \in SUBSET DictKeys }

\* an exception left the function
Raised == [map |-> FALSE, val |-> -1]
IsRaised(v) == ~v.map /\ v.val = -1

\* recursive_merge_dict.merge(d, upd): d is whatever d.get(k, {}) gave, a
\* dictionary or not; the loop body raises on a d that is no dictionary
RECURSIVE Merge(_, _)
Merge(d, upd) ==
    IF DOMAIN upd = {} THEN d
    ELSE IF ~d.map THEN Raised
    ELSE LET sub(k) == IF upd[k].map
                       THEN Merge(IF k \in DOMAIN d.val THEN d.val[k] ELSE EmptyMap,
                                  upd[k].val)
                       ELSE upd[k]
         IN IF \E k \in DOMAIN upd : IsRaised(sub(k)) THEN Raised
            ELSE [map |-> TRUE,
                  val |-> [k \in (DOMAIN d.val) \cup (DOMAIN upd) |->
                              IF k \in DOMAIN upd THEN sub(k) ELSE d.val[k]]]

\* recursive_merge_dict(dictionary, update_dict), on a copy of dictionary
RecursiveMergeDict(dictionary, update_dict) ==
    IF DOMAIN update_dict = {} THEN [map |-> TRUE, val |-> dictionary]
    ELSE Merge([map |-> TRUE, val |-> dictionary], update_dict)

MergeInit ==
    /\ \E d \in DictsOf(MaxDepth, OldLeaves) : \E u \in DictsOf(MaxDepth, NewLeaves) :
          utilIn = [dictionary |-> d, update_dict |-> u]
    /\ utilOut = <<>>

RecursiveMergeDictCall ==
    /\ utilIn # <<>>
    /\ utilOut = <<>>
    /\ utilOut' = RecursiveMergeDict(utilIn.dictionary, utilIn.update_dict)
    /\ UNCHANGED <<schedVars, chainVars, roiVars, traceVars, errVars, batchVars,
                   sampleVars, writerVars, utilIn>>

InitMerge ==
    /\ SchedInitFor(Pos, <<Pos>>) /\ ChainIdle
    /\ RoiIdle /\ TraceIdle /\ ErrIdle /\ BatchIdle
    /\ SampleIdle /\ WritersIdle /\ MergeInit

SpecMerge == InitMerge /\ [][RecursiveMergeDictCall]_vars

\* ------------------------------------------------------------------ claims
\* what one write of the whole mask as a single chunk stores and combines
SingleChunkOut ==
    [n \in ResultNames |-> Scatter(ZeroVolume, mask, MinimizeResults(mask)[n])]

SingleChunkRoi == [n \in ResultNames |-> CreateRoi(SingleChunkOut[n], mask)]

ChunkStoredIn(st, c) == st.mask.exists /\ c \subseteq st.mask.bits

RunEnded == pc = "idle" /\ last.outcome = "done"

\* C1: a non-forced run that started on an empty chunk store and was killed in
\* the chunk loop with chunks 1..k stored is restarted: the restart invokes
\* process on chunks k+1..n only, in order, and its combined output is that of
\* an uninterrupted run.
C1_Resumable ==
    (/\ RunEnded
     /\ ~recalculate
     /\ prev.outcome = "killed" /\ prev.at = "loop"
     /\ prev.fresh /\ ~prev.recalc)
    => \E k \in 0..NChunks :
          /\ \A i \in 1..NChunks : (i <= k) <=> ChunkStoredIn(startTmp, chunks[i])
          /\ processed = [i \in 1..(NChunks - k) |-> k + i]
          /\ outFiles = SingleChunkOut
          /\ roiResult = SingleChunkRoi

C1_Witness ==
    /\ RunEnded
    /\ ~recalculate
    /\ prev.outcome = "killed" /\ prev.at = "loop"
    /\ prev.fresh /\ ~prev.recalc
    /\ NChunks >= 2
    /\ ChunkStoredIn(startTmp, chunks[1])
    /\ processed = [i \in 1..(NChunks - 1) |-> 1 + i]

\* C2: whenever output_exists holds for a chunk, every result array holds the
\* chunk's computed values; and while write has not yet reached the mask
\* update, none of the chunk's voxels is flagged.
C2_NoPartialDone ==
    /\ \A i \in 1..NChunks :
          FittingOutputExists(chunks[i]) =>
              \A n \in ResultNames :
                  /\ n \in DOMAIN tmpFiles
                  /\ \A p \in chunks[i] : tmpFiles[n][p] = Optimize(n, p)
    /\ pc \in {"process", "w_mkdir", "w_loop", "w_scatter", "w_mask"} =>
          chunks[ci] \cap maskFile.bits = {}

\* a run was killed inside write, before the mask update, and the restart
\* processes that chunk again
C2_Witness ==
    /\ pc = "process"
    /\ ~recalculate
    /\ prev.outcome = "killed" /\ prev.at = "loop"
    /\ \E n \in ResultNames :
          /\ n \in DOMAIN tmpFiles
          /\ \A p \in chunks[ci] : tmpFiles[n][p] = Optimize(n, p)

\* the processed-mask flagged voxels while a declared array file was missing
\* when the run started
InconsistentAtStart ==
    /\ startTmp.mask.exists
    /\ startTmp.mask.bits # {}
    /\ \E n \in DeclaredNames : n \notin DOMAIN startTmp.files

\* C3: a non-forced run that starts on a chunk store whose processed-mask
\* flags voxels while a declared array file is missing ends with a computed
\* value at every active voxel of every parameter's combined volume.
C3_InconsistencyRecomputed ==
    (RunEnded /\ ~recalculate /\ InconsistentAtStart)
    => \A n \in ResultNames :
          /\ n \in DOMAIN outFiles
          /\ \A p \in mask : outFiles[n][p] = Optimize(n, p)

\* C4: a run that processes every chunk of the partition combines to the
\* same volumes and ROI vectors as one write of the whole mask.
C4_ChunkedEqualsSingle ==
    (RunEnded /\ Len(processed) = NChunks)
    => /\ outFiles = SingleChunkOut
       /\ roiResult = SingleChunkRoi

C4_Witness ==
    /\ RunEnded
    /\ NChunks >= 2
    /\ Len(processed) = NChunks
    /\ mask # Pos

\* C5: a run with recalculate=False that follows a completed run invokes
\* process on no chunk and leaves the output directory and the chunk store as
\* it found them.
C5_Idempotent ==
    (~recalculate /\ prev.outcome \in {"done", "cached"})
    => /\ processed = <<>>
       /\ visits = <<>>
       /\ pc \in {"idle", "fit_check"}
       /\ outDir = startOut.dir /\ outFiles = startOut.files
       /\ tmpDir = startTmp.dir /\ tmpFiles = startTmp.files
       /\ maskFile = startTmp.mask

C5_Witness ==
    /\ ~recalculate
    /\ prev.outcome = "done"
    /\ pc = "idle" /\ last.outcome = "cached"
    /\ DOMAIN outFiles = ResultNames
    /\ roiResult = SingleChunkRoi

\* C6: output_exists holds for a chunk exactly when the processed-mask file
\* exists, flags every voxel of the chunk, and an array file exists under each
\* declared name itself.
C6_OutputExistsExact ==
    \A i \in 1..NChunks :
        FittingOutputExists(chunks[i]) <=>
            /\ maskFile.exists
            /\ chunks[i] \subseteq maskFile.bits
            /\ \A n \in DeclaredNames : n \in DOMAIN tmpFiles

\* output_exists as it stood when the chunk of a scheduler decision was visited
ExistedAt(v) ==
    /\ v.flagged
    /\ \A n \in DeclaredNames : \E m \in v.stored : IsPrefix(n, m)

ProcessedVisits == SelectSeq(visits, LAMBDA v : v.proc)

C7_Visits ==
    /\ \A j \in 1..Len(visits) :
          /\ visits[j].chunk = j
          /\ visits[j].proc <=> (recalculate \/ ~ExistedAt(visits[j]))
    /\ Len(processed) = Len(ProcessedVisits) - (IF pc = "process" THEN 1 ELSE 0)
    /\ \A i \in 1..Len(processed) : processed[i] = ProcessedVisits[i].chunk
    /\ (pc \in {"combine", "cleanup"} \/ RunEnded) => Len(visits) = NChunks

C7_SkipWritesNothing ==
    (pc = "visit" /\ pc' = "visit")
    => UNCHANGED <<tmpDir, tmpFiles, maskFile, outDir, outFiles, processed>>

\* C7: a scheduler run visits every chunk once, in partition order; it invokes
\* process on a chunk exactly when recomputation is forced or output_exists
\* was false when the chunk was visited; a skipped chunk gets no process call
\* and no write.
C7_VisitOrder == [](C7_Visits) /\ [][C7_SkipWritesNothing]_vars

C7_Witness ==
    /\ RunEnded
    /\ \E j, k \in 1..Len(visits) : visits[j].proc /\ ~visits[k].proc

\* C8: in a run with recalculate=True the chunk store and the final volume
\* files are empty when process is first invoked, no chunk is skipped, and a
\* run that ends has processed every chunk of the partition once, in order.
C8_ForcedRun ==
    (recalculate /\ last.outcome \in {"live", "done"})
    => /\ (pc \in {"visit", "process"} /\ processed = <<>>) =>
              /\ tmpFiles = NoFiles
              /\ ~maskFile.exists
              /\ outFiles = NoFiles
       /\ \A j \in 1..Len(visits) : visits[j].proc
       /\ RunEnded => processed = [i \in 1..NChunks |-> i]

C8_Witness ==
    /\ RunEnded
    /\ recalculate
    /\ startTmp.mask.bits # {}
    /\ startOut.files # NoFiles
    /\ processed = [i \in 1..NChunks |-> i]

RootCalls == SelectSeq(subcalls, LAMBDA e : e.parent = <<>>)

\* C9: with recalculate and only_recalculate_last set, the outermost chain of
\* n links runs its n-th link, and no other, with recalculate set; a composite
\* link before the n-th is fitted exactly when its output was missing; a chain
\* that has returned has run links 1..n in order.
C9_OnlyLastForced ==
    (optRecalculate /\ optOnlyLast /\ ~tree.leaf)
    => /\ \A j \in 1..Len(RootCalls) :
              /\ RootCalls[j].index = j
              /\ RootCalls[j].recalc <=> (j = Len(tree.kids))
       /\ \A j \in 1..Len(calls) :
              (Len(calls[j].path) = 1 /\ calls[j].path[1] < Len(tree.kids)) =>
                  /\ ~calls[j].recalc
                  /\ calls[j].fitted <=> ~calls[j].existed
       /\ (stack = <<>> /\ fitRuns > 0) => Len(RootCalls) = Len(tree.kids)

C9_Witness ==
    /\ optRecalculate /\ optOnlyLast
    /\ stack = <<>> /\ fitRuns > 0
    /\ Len(tree.kids) >= 3
    /\ Len(RootCalls) = Len(tree.kids)
    /\ \E j, k \in 1..Len(calls) :
          /\ Len(calls[j].path) = 1 /\ calls[j].fitted /\ ~calls[j].recalc
          /\ Len(calls[k].path) = 1 /\ ~calls[k].fitted

C12_NeverForced ==
    ~optRecalculate
    => /\ \A j \in 1..Len(subcalls) : ~subcalls[j].recalc
       /\ \A j \in 1..Len(calls) :
              /\ ~calls[j].recalc
              /\ calls[j].existed => ~calls[j].fitted

C12_Witness ==
    /\ ~optRecalculate
    /\ stack = <<>> /\ fitRuns > 0
    /\ \E j, k \in 1..Len(calls) :
          /\ Len(calls[j].path) >= 2 /\ calls[j].existed /\ ~calls[j].fitted
          /\ calls[k].fitted

\* the model at path is the last link of every cascade it lies in
LastAtEveryLevel(path) ==
    \A d \in 1..Len(path) :
        path[d] = Len(At(tree, SubSeq(path, 1, d - 1)).kids)

InitAppliedCalls == {j \in 1..Len(calls) : calls[j].applyInit}

\* C13: the initialization data is applied to a composite model only when it
\* is the outermost model or the last link at every level above it, never to a
\* link that is followed by another at any level, and to at most one composite
\* model per run.
C13_InitOnlyLast ==
    /\ \A j \in InitAppliedCalls : LastAtEveryLevel(calls[j].path)
    /\ \A j \in 1..Len(calls) :
          (\E d \in 1..Len(calls[j].path) :
              calls[j].path[d] < Len(At(tree, SubSeq(calls[j].path, 1, d - 1)).kids))
          => ~calls[j].applyInit
    /\ Cardinality(InitAppliedCalls) <= 1

C13_Witness ==
    /\ stack = <<>> /\ fitRuns > 0
    /\ \E j, k \in 1..Len(calls) :
          /\ calls[j].applyInit /\ Len(calls[j].path) >= 2
          /\ ~calls[k].applyInit /\ Len(calls[k].path) >= 2
          /\ calls[k].path[Len(calls[k].path)]
                 = Len(At(tree, SubSeq(calls[k].path, 1, Len(calls[k].path) - 1)).kids)

\* C14: for every mask m and every dense array x, restore_volumes(
\* create_roi(x, m), m) gives an array that equals x at every position of m
\* and 0 at every other position.
C14_RestoreExtract ==
    (roiOut # <<>> /\ roiIn.wvd)
    => /\ roiOut.ok
       /\ \A p \in Pos :
              roiOut.data[p] = IF p \in roiIn.m THEN roiIn.x.data[p]
                               ELSE Zeros(roiIn.x.w)

\* C15: a run that started on an empty chunk store and ended returns, for
\* every output parameter, a ROI vector with one row per active voxel of the
\* mask, and leaves a volume that holds the computed value at every active
\* position and 0 at every other position, whatever the partition.
C15_CombineShape ==
    (RunEnded /\ fresh)
    => \A n \in ResultNames :
          /\ n \in DOMAIN roiResult
          /\ Len(roiResult[n]) = Cardinality(mask)
          /\ n \in DOMAIN outFiles
          /\ \A p \in Pos :
                outFiles[n][p] = IF p \in mask THEN Optimize(n, p) ELSE 0

C15_Witness ==
    /\ RunEnded /\ fresh
    /\ NChunks >= 2
    /\ Cardinality(mask) = 2
    /\ \A n \in ResultNames : n \in DOMAIN roiResult /\ Len(roiResult[n]) = 2

\* the trace arrays one write with the full mask gives
SingleWriteTraces ==
    [n \in ResultNames |->
        AssignRows([i \in 1..Cardinality(traceIn.m) |-> Zeros(traceIn.s)],
                   VoxelIndices(traceIn.m, traceIn.m),
                   SampleResults(traceIn.m, traceIn.s)[n])]

\* the chunk of position p has been written to the trace of n
TraceWritten(n, p) ==
    \E i \in 1..Len(traceIn.cs) :
        /\ p \in traceIn.cs[i]
        /\ i < traceAt \/ (i = traceAt /\ n \notin tracePending)

\* C16: a trace array has one row per active voxel of the full mask and one
\* column per retained sample; the row at a voxel's ROI index within the full
\* mask holds that voxel's samples once its chunk is written and is untouched
\* before; when every chunk of the partition is written the traces are those
\* of one write with the full mask.
C16_TraceChunked ==
    traceAt > 0
    => /\ \A n \in DOMAIN traceFiles :
              /\ Len(traceFiles[n]) = Cardinality(traceIn.m)
              /\ \A i \in 1..Len(traceFiles[n]) :
                    LET p == ROIOrder(traceIn.m)[i]
                    IN /\ Len(traceFiles[n][i]) = traceIn.s
                       /\ traceFiles[n][i] = IF TraceWritten(n, p)
                                             THEN Samples(n, p, traceIn.s)
                                             ELSE Zeros(traceIn.s)
       /\ traceAt > Len(traceIn.cs) => traceFiles = SingleWriteTraces

C16_Witness ==
    /\ traceAt > Len(traceIn.cs)
    /\ Len(traceIn.cs) >= 2
    /\ traceIn.m # Pos
    /\ traceIn.s >= 2
    /\ traceFiles = SingleWriteTraces

C17_Raised ==
    /\ badRuns = {}
    /\ \A i \in 1..Len(errors) :
          /\ errors[i].type = "InsufficientProtocolError"
          /\ errors[i].problems = InputDataProblems

C17_NothingTouched ==
    errors' # errors
    => /\ Len(errors') = Len(errors) + 1
       /\ UNCHANGED <<tmpDir, tmpFiles, maskFile, outDir, outFiles, processed,
                      visits, pc, runs, roiResult>>

\* C17: a call of ModelFit(...), SingleModelFit(...) or sample_composite_model
\* on input data the model finds insufficient never starts a run: it raises
\* InsufficientProtocolError with the model's input-data problems to the
\* caller, and the step that raises invokes no process, writes nothing to the
\* chunk store and deletes no output.
C17_InsufficientRaises == [](C17_Raised) /\ [][C17_NothingTouched]_vars

C17_Witness ==
    /\ Len(errors) > 0
    /\ runs > 0
    /\ DOMAIN outFiles = ResultNames
    /\ DOMAIN tmpFiles = ResultNames
    /\ maskFile.bits = mask

BatchEvents(s, m) ==
    {i \in 1..Len(batchLog) : batchLog[i].subject = s /\ batchLog[i].model = m}

\* FitFunc went through model m of subject s
BatchPassed(s, m) ==
    \/ s < batchSubject
    \/ s = batchSubject /\ m < batchModel

\* C18: in a batch, a model whose input data is insufficient for a subject is
\* logged as not fitted and no exception leaves FitFunc; every other model of
\* models_to_fit is fitted for that subject, each once and in order, and every
\* later subject is processed.
C18_BatchContinues ==
    /\ ~batchRaised
    /\ \A s \in Subjects, m \in Models :
          IF BatchPassed(s, m) /\ ~SkipSubject(s)
          THEN /\ Cardinality(BatchEvents(s, m)) = 1
               /\ \A i \in BatchEvents(s, m) :
                     batchLog[i].event = IF batchIn.suff[s][m] THEN "done fitting"
                                         ELSE "could not fit"
          ELSE BatchEvents(s, m) = {}
    /\ \A i, j \in 1..Len(batchLog) :
          i < j => \/ batchLog[i].subject < batchLog[j].subject
                   \/ /\ batchLog[i].subject = batchLog[j].subject
                      /\ batchLog[i].model < batchLog[j].model

C18_Witness ==
    /\ batchSubject > MaxSubjects
    /\ \E i, j, k \in 1..Len(batchLog) :
          /\ i < j /\ j < k
          /\ batchLog[i].event = "could not fit"
          /\ batchLog[j].event = "done fitting"
          /\ batchLog[j].subject = batchLog[i].subject
          /\ batchLog[k].event = "done fitting"
          /\ batchLog[k].subject > batchLog[i].subject

\* every chunk of the partition has been visited: skipped, or processed and
\* stored
AllChunksVisited ==
    /\ Len(visits) = NChunks
    /\ \A i \in 1..NChunks :
          /\ visits[i].chunk = i
          /\ visits[i].proc =>
                /\ \E j \in 1..Len(processed) : processed[j] = i
                /\ maskFile.exists /\ chunks[i] \subseteq maskFile.bits

C19_CombineAfterLoop ==
    /\ (pc' = "combine" /\ pc # "combine") => (pc = "visit" /\ AllChunksVisited)
    /\ pc \in {"combine", "cleanup"} => pc' \in {"combine", "cleanup", "idle"}
    /\ (pc' = "cleanup" /\ pc # "cleanup") => (pc = "combine" /\ wpending = {})
    /\ (last'.outcome = "done" /\ last.outcome # "done") => pc = "cleanup"

\* C19: a scheduler run enters combine only from the chunk loop when every
\* chunk has been visited, never goes back from combine to the loop, so that
\* combine is invoked once, and ends as done only after combine has returned.
C19_CombineOnce == [][C19_CombineAfterLoop]_vars

C19_Witness ==
    /\ pc = "cleanup"
    /\ NChunks >= 2
    /\ AllChunksVisited
    /\ \E j, k \in 1..Len(visits) : visits[j].proc /\ ~visits[k].proc

ChunkUnion(k) == UNION {chunks[i] : i \in 1..k}

\* C20: from the moment a run begins on an empty chunk store until the next
\* run starts, a kill included, the processed-mask flags exactly the voxels of
\* the first k chunks of the partition, for some k, and the arrays hold the
\* computed values of those chunks.
C20_PrefixConsistent ==
    fresh
    => \E k \in 0..NChunks :
          /\ maskFile.bits = ChunkUnion(k)
          /\ \A n \in ResultNames, p \in ChunkUnion(k) :
                n \in DOMAIN tmpFiles /\ tmpFiles[n][p] = Optimize(n, p)

C20_Witness ==
    /\ fresh
    /\ pc = "idle" /\ last.outcome = "killed"
    /\ NChunks >= 2
    /\ maskFile.bits = chunks[1]
    /\ \E n \in DOMAIN tmpFiles : \E p \in chunks[2] : tmpFiles[n][p] = Optimize(n, p)

\* the ROI results a link returns: a composite model its own, a cascade those
\* of its last link
RECURSIVE ResultOf(_)
ResultOf(path) ==
    IF At(tree, path).leaf THEN path
    ELSE ResultOf(path \o <<Len(At(tree, path).kids)>>)

\* C22: while a cascade is run, the list handed to the i-th get_next holds
\* the ROI results of the links 1..i-1 of that cascade, in link order, and
\* nothing else; it is empty for the first link.
C22_PreviousResults ==
    \A j \in 1..Len(subcalls) :
        subcalls[j].given =
            [k \in 1..(subcalls[j].index - 1) |-> ResultOf(subcalls[j].parent \o <<k>>)]

\* a third link, and a link of a nested cascade after its first, were handed
\* their lists
C22_Witness ==
    /\ \E j \in 1..Len(subcalls) :
           subcalls[j].index = 3 /\ Len(subcalls[j].given) = 2
    /\ \E j \in 1..Len(subcalls) :
           subcalls[j].parent # <<>> /\ subcalls[j].index = 2

OnStack(q) == \E i \in 1..Len(stack) : stack[i].path = q

\* a cascade that is not being run stands at its first link, and what run()
\* returned is the result of the last link
C23_Returned ==
    /\ \A q \in CascadePaths(tree) :
           ~OnStack(q) => cursor[q] = Reset /\ HasNext(cursor[q], q)
    /\ (stack = <<>> /\ fitRuns > 0) => fitResult = ResultOf(<<>>)
    /\ subcalls # <<>> => subcalls[1].parent = <<>> /\ subcalls[1].index = 1

\* the cursor of a cascade moves one link on, or is reset in the step in
\* which the run of that cascade returns with every link through
C23_ResetStep ==
    \A q \in CascadePaths(tree) :
        cursor'[q] # cursor[q] =>
            \/ cursor'[q] = cursor[q] + 1
            \/ /\ cursor'[q] = Reset
               /\ cursor[q] = Len(At(tree, q).kids)
               /\ Top.path = q
               /\ Len(stack') = Len(stack) - 1
               /\ Len(SelectSeq(subcalls, LAMBDA e : e.parent = q)) = Len(At(tree, q).kids)

\* C23: when the run of a cascade returns, reset() was called once, after
\* the last link finished: has_next() is true again, the cascade can be run
\* again from its first link, and the value returned is that of the last link.
C23_ChainReset == [](C23_Returned) /\ [][C23_ResetStep]_vars

\* a cascade of cascades was run twice
C23_Witness ==
    /\ fitRuns = 2
    /\ stack = <<>>
    /\ \E q \in CascadePaths(tree) : q # <<>>
    /\ Len(subcalls) >= 3

\* what sample_model did to base_dir or to the sampler
SampleEffects ==
    {i \in 1..Len(sampleLog) :
        sampleLog[i] \in {"makedirs", "rmtree", "sample_composite_model",
                          "easy_save_user_script_info"}}

\* sample_model has passed its test for a cascade
SamplePastTest == samplePc \notin {"off", "start", "post_processing", "cascade_test"}

\* C26: sample_model called with a cascade model raises ValueError, before
\* the samples output directory is created or removed and before any sampling
\* is started; with a composite model it does not raise.
C26_CascadeRejected ==
    /\ (SamplePastTest /\ sampleIn.cascade) =>
          /\ samplePc = "ValueError"
          /\ SampleEffects = {}
    /\ samplePc = "ValueError" => sampleIn.cascade
    /\ SampleEffects # {} => ~sampleIn.cascade

\* a cascade given by name was rejected where the call, with recalculate
\* set, would have removed the output directory that is there
C26_Witness ==
    /\ samplePc = "ValueError"
    /\ sampleIn.recalculate
    /\ sampleIn.byName
    /\ baseDir

\* the chunk a call of _write_volumes is for
WriterChunk(w) == chunks[writers[w].ci]

\* the call of writer w returns in this step
WriterReturns(w) == writers[w].pc = "mask_write" /\ writers'[w].pc = "idle"

C21_Step ==
    schedule = "sequential" =>
        /\ maskFile.exists => maskFile'.exists
        /\ maskFile.bits \subseteq maskFile'.bits
        /\ \A w \in Writers :
              WriterReturns(w) =>
                  maskFile'.bits = writers[w].before.mask.bits \cup WriterChunk(w)
        /\ \A n \in DOMAIN tmpFiles :
              /\ n \in DOMAIN tmpFiles'
              /\ (\A w \in Writers : writers[w].pc # "scatter") =>
                     tmpFiles'[n] = tmpFiles[n]

\* C21: across a sequence of write calls with no reset in between the
\* processed-mask only gains bits (after a write for chunk c it is the mask
\* before the write OR c), and no array file or mask file that exists is
\* truncated or made anew: a file that is there stays, with its content
\* untouched by every statement but the scatter.
C21_WriteMonotone == [][C21_Step]_vars

\* three calls one after another, the last on a store whose mask had bits
\* and gained some
C21_Witness ==
    /\ schedule = "sequential"
    /\ nWrites = 3
    /\ \E w \in Writers :
          /\ writers[w].pc = "idle"
          /\ writers[w].before.mask.bits # {}
          /\ writers[w].before.mask.bits # maskFile.bits
          /\ DOMAIN writers[w].before.files = ResultNames

\* a bit that a finished call set is not in the processed-mask
LostBit == ~(flaggedEver \subseteq maskFile.bits)

\* a voxel is flagged while some array holds no computed value for it
FlaggedWithoutValue ==
    \E p \in maskFile.bits : \E n \in ResultNames :
        n \notin DOMAIN tmpFiles \/ tmpFiles[n][p] # Optimize(n, p)

\* C24: under the sequential schedule, one call of write at a time, no state
\* is reachable in which a processed-mask bit set by a call is lost or a
\* voxel is flagged while an array holds no computed value for it; with two
\* calls interleaved such a state is reachable (C24_Witness).
C24_SequentialSafe ==
    schedule = "sequential" => ~LostBit /\ ~FlaggedWithoutValue

\* two interleaved calls have returned: a bit one of them set is lost, and a
\* flagged voxel has no computed value
C24_Witness ==
    /\ schedule = "interleaved"
    /\ \A w \in Writers : writers[w].pc = "idle" /\ writers[w].ci # 0
    /\ LostBit
    /\ FlaggedWithoutValue

\* the store the call found held the chunk already
WrittenBefore(w) ==
    /\ writers[w].before.mask.exists
    /\ WriterChunk(w) \subseteq writers[w].before.mask.bits
    /\ DOMAIN writers[w].before.files = ResultNames

C27_Step ==
    schedule = "sequential" =>
        \A w \in Writers :
            /\ writers[w].pc # "idle" =>
                  \A n \in DOMAIN tmpFiles : \A p \in Pos \ WriterChunk(w) :
                      tmpFiles'[n][p] = tmpFiles[n][p]
            /\ (WriterReturns(w) /\ DOMAIN writers[w].before.files = ResultNames) =>
                  \A n \in ResultNames : \A p \in Pos \ WriterChunk(w) :
                      tmpFiles'[n][p] = writers[w].before.files[n][p]
            /\ (WriterReturns(w) /\ WrittenBefore(w)) =>
                  /\ tmpFiles' = writers[w].before.files
                  /\ maskFile' = writers[w].before.mask

\* C27: a write for chunk mask c into an existing store changes each array
\* only where c is true: outside c every array holds after the write what it
\* held before; and a second write of the same values for the same chunk
\* leaves the store as it was.
C27_WriteFrame == [][C27_Step]_vars

\* the third call wrote a chunk again while the store held the other chunk
C27_Witness ==
    /\ schedule = "sequential"
    /\ nWrites = 3
    /\ NChunks = 2
    /\ \E w \in Writers :
          /\ writers[w].pc = "idle"
          /\ WrittenBefore(w)
          /\ writers[w].before.mask.bits = mask

\* combine has returned
Combined == pc = "cleanup"

\* C25, as the code has it: combine writes one final volume for every array
\* of the chunk store, equal to the array, and none for the processed-mask;
\* the ROI view it returns is extracted with the run's input mask, one row
\* per active voxel of that mask, which is one row per flagged voxel when
\* the processed-mask flags no voxel outside the input mask.
C25_RoiOfInputMask ==
    Combined =>
        /\ \A n \in DOMAIN tmpFiles : n \in DOMAIN outFiles /\ outFiles[n] = tmpFiles[n]
        /\ MaskName \notin DOMAIN outFiles
        /\ DOMAIN roiResult = DOMAIN outFiles
        /\ \A n \in DOMAIN roiResult :
              /\ roiResult[n] = CreateRoi(outFiles[n], mask)
              /\ Len(roiResult[n]) = Cardinality(mask)
              /\ maskFile.bits \subseteq mask =>
                    Len(roiResult[n]) = Cardinality(maskFile.bits)

\* C25, as stated: the ROI view combine returns has one row per voxel
\* flagged in the accumulated processed-mask.
C25_RoiOfProcessedMask ==
    Combined =>
        \A n \in DOMAIN roiResult : Len(roiResult[n]) = Cardinality(maskFile.bits)

\* combine returned in a run whose chunk store was begun under another mask
C25_Witness ==
    /\ Combined
    /\ ~recalculate
    /\ DOMAIN roiResult = ResultNames
    /\ ~(maskFile.bits \subseteq mask)

\* C28: once the loop over the chunks is through, and so when the run has
\* reached DONE, the processed-mask flags every active voxel of the run's
\* mask, whatever the chunk store held when the run started and whatever the
\* partition: a chunk is skipped only when all its voxels are flagged, and a
\* chunk process was called on is flagged when process has returned.
C28_AllFlagged ==
    /\ pc \in {"combine", "cleanup"} =>
          maskFile.exists /\ mask \subseteq maskFile.bits
    /\ \A j \in 1..Len(visits) : ~visits[j].proc => visits[j].flagged
    /\ pc \in {"visit", "combine", "cleanup"} =>
          /\ \A j \in 1..Len(visits) : chunks[visits[j].chunk] \subseteq maskFile.bits
          /\ \A j \in 1..Len(processed) : chunks[processed[j]] \subseteq maskFile.bits

\* a non-forced run reached DONE on a chunk store that flagged some of its
\* voxels, and voxels outside its mask, when it started: one chunk was
\* skipped and one processed
C28_Witness ==
    /\ Combined
    /\ ~recalculate
    /\ NChunks = 2
    /\ startTmp.mask.bits \cap mask # {}
    /\ ~(startTmp.mask.bits \subseteq mask)
    /\ ~(mask \subseteq startTmp.mask.bits)
    /\ \E j, k \in 1..Len(visits) : visits[j].proc /\ ~visits[k].proc

\* the file of trace n, in the storage directory or moved to the output
TraceFileOf(n) ==
    IF n \in DOMAIN traceFiles THEN traceFiles[n]
    ELSE IF n \in DOMAIN movedTraces THEN movedTraces[n]
    ELSE <<>>

\* the row of voxel p is written in the file of trace n
RowWritten(n, p) ==
    LET f == TraceFileOf(n)
        i == Rank(p, mask)
    IN /\ i \in DOMAIN f
       /\ f[i] = Samples(n, p, traceIn.s)

LinksOnce ==
    /\ \A q \in LeafPaths(tree) :
          Cardinality({i \in DOMAIN calls : calls[i].path = q}) = 1
    /\ \A c \in CascadePaths(tree) : \A i \in 1..Len(At(tree, c).kids) :
          Cardinality({j \in DOMAIN subcalls :
                          subcalls[j].parent = c /\ subcalls[j].index = i}) = 1

\* run() has returned: through the scheduler's DONE, or at once with the
\* maps found in the output directory
RunReturned == pc = "idle" /\ last.outcome \in {"done", "cached"}

\* the run has returned with what DONE leaves: the volume of every result
\* in the output directory
RunDone == RunReturned /\ ResultNames \subseteq DOMAIN outFiles

\* every run returns, killed and restarted or not
SchedReturns == (pc # "idle") ~> RunReturned

SchedDone == (pc # "idle") ~> RunDone

ChainDone == (stack # <<>>) ~> (stack = <<>> /\ LinksOnce)

\* a step of a restarted run, the deletion of the store at DONE apart
FlagStep ==
    (runs' >= 2 /\ last'.outcome # "done") => maskFile.bits \subseteq maskFile'.bits

\* What holds of the runs: each returns, the chain having run each link
\* once, and no flag is lost over the restarts.
RunsReturn ==
    /\ SchedReturns
    /\ ChainDone
    /\ [][FlagStep]_vars

\* C30: every scheduler run over a finite chunk list whose calls return
\* reaches DONE, also when it is killed and restarted finitely often without
\* recalculate, and the flagged voxels never become fewer over the
\* restarts; every run of a finite, possibly nested, chain of models
\* returns having run each link exactly once. A restart that returns the
\* complete output of a run killed after its last write counts as DONE.
C30_RestartReachesDone ==
    /\ SchedDone
    /\ ChainDone
    /\ [][FlagStep]_vars

\* the names from the outermost model down to the model at path, each model
\* named by its path
PathTrail(path) == [k \in 1..(Len(path) + 1) |-> SubSeq(path, 1, k - 1)]

\* C31: whenever a terminal model is handed to the scheduler, the name trail
\* given for the configuration lookup is the sequence of names on the path
\* from the outermost model to that model, in the first run() of a ModelFit
\* object and in every later one.
C31_TrailIsPath ==
    \A i \in DOMAIN calls : calls[i].names = PathTrail(calls[i].path)

\* a link of a chain raises in the first run() of the object
C32_RaiseStep ==
    (errors' # errors /\ fitRuns = 0 /\ Top.path # <<>>)
    => /\ \A q \in DOMAIN cursor' : cursor'[q] = Reset
       /\ namesList' = <<>>

\* C32: when a sub-link of a chain fails, the run leaves every chain reset
\* and the name trail as it was before the chain was entered, so that the
\* object can be run again from its first link.
C32_FailureLeavesReset == [][C32_RaiseStep]_vars

\* what was logged for subject s, oldest first
SubjectLog(s) == SelectSeq(batchLog, LAMBDA e : e.subject = s)

\* C33: FitFunc skips a subject, loading no input data and fitting no model,
\* exactly when recalculate is not set and the output of every model of
\* models_to_fit exists; otherwise it loads the data and runs a fit for every
\* model of models_to_fit, in list order.
C33_SkipIffAllExist ==
    \A s \in Subjects :
        s < batchSubject =>
            LET log == SubjectLog(s)
            IN IF ~batchIn.recalc /\ batchIn.exists[s] = Models
               THEN Len(log) = 1 /\ log[1].event = "skipped"
               ELSE /\ Len(log) = MaxModels + 1
                    /\ log[1].event = "loaded"
                    /\ \A m \in Models :
                          /\ log[m + 1].model = m
                          /\ log[m + 1].event \in {"done fitting", "could not fit"}

\* one subject with the output of some models only was fitted, another with
\* the output of all was skipped
C33_Witness ==
    /\ batchSubject > MaxSubjects
    /\ \E s, t \in Subjects :
          /\ batchIn.exists[s] \notin {{}, Models}
          /\ SubjectLog(s)[1].event = "loaded"
          /\ batchIn.exists[t] = Models
          /\ SubjectLog(t)[1].event = "skipped"

\* the calls that sample, prepare the model or touch the output folder
SamplingEffects == {"makedirs", "set_input_data", "apply_to_model", "process"}

\* C34: sample_composite_model with recalculate not set and a UsedMask
\* volume in the output folder returns the stored samples and neither runs
\* the sampler, nor applies initialization data, nor sets the input data of
\* the model; the sufficiency of the input data is tested before, so that
\* insufficient input raises also when the output exists.
C34_ShortcutAfterCheck ==
    /\ ~sampleIn.sufficient =>
          /\ samplePc \in {"c_start", "InsufficientProtocolError"}
          /\ sampleLog = <<>>
    /\ (sampleIn.sufficient /\ ~sampleIn.recalculate /\ sampleIn.usedMask) =>
          /\ \A i \in DOMAIN sampleLog : sampleLog[i] \notin SamplingEffects
          /\ samplePc = "returned" => sampleLog = <<"load_samples">>

\* the stored samples were returned to a call that gave initialization data
C34_Witness ==
    /\ samplePc = "returned"
    /\ sampleIn.initData
    /\ sampleIn.usedMask
    /\ sampleLog = <<"load_samples">>

\* C35: for every mask m and every voxel list v with one row per active
\* voxel of m, create_roi(restore_volumes(v, m), m) returns v: as many rows
\* as m has active voxels, in the order restore_volumes placed them.
C35_ExtractRestore ==
    (roiOut # <<>> /\ roiIn.wvd)
    => /\ roiOut.ok
       /\ Len(roiOut.rows) = Cardinality(roiIn.m)
       /\ roiOut.rows = roiIn.v.rows

\* every name of the trail is matched by the expression at its place
MatchesWhole(names, rxs) ==
    /\ Len(names) = Len(rxs)
    /\ \A i \in 1..Len(rxs) : ReMatch(rxs[i], names[i])

WholeKeys(names, config) ==
    {i \in 1..Len(config) : MatchesWhole(names, config[i].rx)}

LastNameKeys(names, config) ==
    {i \in 1..Len(config) :
        ~config[i].tuple /\ ReMatch(config[i].rx[1], names[Len(names)])}

SuffixKeys(names, config) ==
    {i \in 1..Len(config) :
        /\ config[i].tuple
        /\ \E k \in 1..Len(config[i].rx) :
              MatchesWhole(names, SubSeq(config[i].rx, k, Len(config[i].rx)))}

\* C36: get_model_config returns the content of a key that matches the whole
\* name trail when there is one; failing that, of a single-name key that
\* matches the last name of the trail; failing that, of a tuple key one of
\* whose suffixes matches the whole trail; and an empty dict when no key
\* matches or the config is empty.
C36_BestMatch ==
    utilOut # <<>> =>
        LET names == utilIn.names
            config == utilIn.config
            whole == WholeKeys(names, config)
            lastName == LastNameKeys(names, config)
            suffix == SuffixKeys(names, config)
        IN IF whole # {} THEN utilOut.content \in whole
           ELSE IF lastName # {} THEN utilOut.content \in lastName
           ELSE IF suffix # {} THEN utilOut.content \in suffix
           ELSE utilOut.content = EmptyDict

\* the key of the whole trail was taken although a shorter key, tried
\* before it, matches the lastName name
C36_Witness ==
    /\ utilOut # <<>>
    /\ Len(utilIn.names) = 2
    /\ utilOut.content \in WholeKeys(utilIn.names, utilIn.config)
    /\ LastNameKeys(utilIn.names, utilIn.config) # {}

\* out holds the values of upd at every key path of upd, and the values of
\* d at every key path of d alone
RECURSIVE MergedAs(_, _, _)
MergedAs(out, d, upd) ==
    /\ out.map
    /\ DOMAIN out.val = (DOMAIN d) \cup (DOMAIN upd)
    /\ \A k \in DOMAIN upd :
          IF upd[k].map
          THEN MergedAs(out.val[k],
                        IF k \in DOMAIN d /\ d[k].map THEN d[k].val ELSE EmptyMap.val,
                        upd[k].val)
          ELSE out.val[k] = upd[k]
    /\ \A k \in (DOMAIN d) \ (DOMAIN upd) : out.val[k] = d[k]

\* C37: recursive_merge_dict(dictionary, update_dict) returns a dictionary
\* that holds the value of update_dict at every key path of update_dict,
\* also where update_dict has a dictionary and the first dictionary has not,
\* and the value of the first dictionary at every key path of it alone.
C37_UpdateTakesPrecedence ==
    utilOut # <<>> =>
        /\ ~IsRaised(utilOut)
        /\ MergedAs(utilOut, utilIn.dictionary, utilIn.update_dict)

\* ------------------------------------------------------- _selected_indices
\* model.problems_to_analyze: None (every problem) or a list of voxel indices
AllProblems == [some |-> FALSE, idx |-> {}]

Selection(S) == [some |-> TRUE, idx |-> S]

Settings == {AllProblems} \cup {Selection(S) : S \in SUBSET Pos \ {{}}}

\* the calls a processing run makes: one context per chunk, on one model
ChunkLists == UNION {[1..k -> SUBSET Pos \ {{}}] : k \in 1..MaxChunks}

SelectedInit ==
    /\ \E s \in Settings : \E cs \in ChunkLists :
          /\ utilIn = [chunks |-> cs]
          /\ utilOut = [pc |-> "out", i |-> 1, problems_to_analyze |-> s,
                        old_setting |-> s, before |-> s, raised |-> FALSE]

\* lines 1322-1323, up to the yield
SelectedEnter ==
    /\ utilOut.pc = "out"
    /\ utilOut.i <= Len(utilIn.chunks)
    /\ utilOut' = [utilOut EXCEPT !.pc = "block",
                                  !.old_setting = utilOut.problems_to_analyze,
                                  !.before = utilOut.problems_to_analyze,
                                  !.problems_to_analyze = Selection(utilIn.chunks[utilOut.i]),
                                  !.raised = FALSE]
    /\ UNCHANGED <<schedVars, chainVars, roiVars, traceVars, errVars, batchVars,
                   sampleVars, writerVars, utilIn>>

\* the block finishes: contextmanager resumes the generator, which runs
\* line 1325 and ends
SelectedExit ==
    /\ utilOut.pc = "block"
    /\ utilOut' = [utilOut EXCEPT !.pc = "out", !.i = utilOut.i + 1,
                                  !.problems_to_analyze = utilOut.old_setting]
    /\ UNCHANGED <<schedVars, chainVars, roiVars, traceVars, errVars, batchVars,
                   sampleVars, writerVars, utilIn>>

\* the block raises: contextmanager throws the exception into the generator
\* at the yield of line 1324, which is in no try statement, so the exception
\* leaves the generator there, line 1325 is not run, and the exception goes
\* on to the caller of the run
SelectedRaise ==
    /\ utilOut.pc = "block"
    /\ utilOut' = [utilOut EXCEPT !.pc = "out", !.i = Len(utilIn.chunks) + 1,
                                  !.raised = TRUE]
    /\ UNCHANGED <<schedVars, chainVars, roiVars, traceVars, errVars, batchVars,
                   sampleVars, writerVars, utilIn>>

\* a later run on the same model object
SelectedRerun ==
    /\ utilOut.pc = "out"
    /\ utilOut.i > Len(utilIn.chunks)
    /\ utilOut.i <= Len(utilIn.chunks) + 1
    /\ utilOut' = [utilOut EXCEPT !.i = 1]
    /\ \E cs \in ChunkLists : utilIn' = [chunks |-> cs]
    /\ UNCHANGED <<schedVars, chainVars, roiVars, traceVars, errVars, batchVars,
                   sampleVars, writerVars>>

SelectedNext == SelectedEnter \/ SelectedExit \/ SelectedRaise \/ SelectedRerun

InitSelected ==
    /\ SchedInitFor(Pos, <<Pos>>) /\ ChainIdle
    /\ RoiIdle /\ TraceIdle /\ ErrIdle /\ BatchIdle
    /\ SampleIdle /\ WritersIdle /\ SelectedInit

SpecSelected == InitSelected /\ [][SelectedNext]_vars

\* C38: inside the block model.problems_to_analyze is the chunk's indices,
\* and whenever the block has been left, normally or by an exception, it is
\* again the setting the model had when the block was entered.
C38_SettingRestored ==
    /\ utilOut # <<>> /\ utilOut.pc = "block"
          => utilOut.problems_to_analyze = Selection(utilIn.chunks[utilOut.i])
    /\ utilOut # <<>> /\ utilOut.pc = "out"
          => utilOut.problems_to_analyze = utilOut.before

====
